---- MODULE Spec2Model ----
(***************************************************************************)
(* State machine of the FSM state manager of label_studio/fsm:             *)
(* StateManager.get_current_state_value, StateManager.transition_state,    *)
(* StateManager.invalidate_cache and the transition executor, run by       *)
(* several concurrent callers against one entity, its StateRecords, its    *)
(* cache entry and its lock key.                                           *)
(***************************************************************************)
EXTENDS Naturals, Integers, Sequences, FiniteSets, TLC

\* ------------------------------------------------------------------ bounds
\* Total number of calls the callers start in one behaviour.
MaxCalls == 3

\* The concurrent callers (request handlers / worker processes).
Procs == {"p1", "p2"}
\* calls made in a behaviour of the CurrentContext specification
MaxSaves == 2
\* consecutive generate calls made on one UUID7Generator
MaxGenerate == 4097
\* generate calls of a generator used alongside the other UUID7 utilities
MaxIds == 2
\* requests handled in a behaviour of the project workflow
MaxOps == 5
\* annotations a task can carry at a time
MaxAnnotations == 2

\* ------------------------------------------------------------- constants
\* Python None: no state, a missing cache key.
NoState == "None"
\* no holder of the lock key (the key is absent from the cache)
NoProc == "nobody"
\* no StateRecord (new_state_record unassigned, None returned)
NoRecord == 0
\* a transition name that is not registered for the entity type
Unregistered == "unregistered"

\* Entity types whose lifecycle is tracked in the model.
Entities == {"task", "annotation"}

\* State enumeration of an entity type (the states the registered
\* transitions of the type lead to).
StateChoices(e) ==
    IF e = "task" THEN {"CREATED", "COMPLETED"} ELSE {"SUBMITTED"}

\* The model fields whose change a save can report in changed_fields.
Fields == {"result", "is_labeled"}

\* A transition class as register_state_transition leaves it: its registered
\* name, the state its get_target_state returns (None: side-effect only), the
\* trigger metadata and _force_state_record the decorator stores on it, what
\* its should_execute can do ("True", "False", "raises") and which of its
\* hooks can raise.
TransitionClass(n, tgt, frc, onc, onu, tf, se, mr) ==
    [name |-> n, target |-> tgt, force |-> frc,
     triggers_on_create |-> onc, triggers_on_update |-> onu,
     trigger_fields |-> tf, should_execute |-> se, may_raise |-> mr]

\* Transition registry: the transitions registered for an entity type, in
\* registration order. The post hook of annotation_submitted works on the
\* task and the project of the annotation and can raise.
TransitionRegistry(e) ==
    IF e = "task"
    THEN <<TransitionClass("task_created", "CREATED", FALSE, TRUE, FALSE,
                           {}, {"True"}, {}),
           TransitionClass("task_completed", "COMPLETED", FALSE, FALSE, FALSE,
                           {}, {"True"}, {})>>
    ELSE <<TransitionClass("annotation_submitted", "SUBMITTED", FALSE, TRUE,
                           FALSE, {}, {"True"}, {"post_hook"}),
           TransitionClass("annotation_updated", "SUBMITTED", TRUE, FALSE,
                           TRUE, {}, {"True"}, {})>>

\* BaseTransition.can_transition_from_state: no registered transition
\* overrides the default, which allows every current state.
can_transition_from_state(target, from) == TRUE

\* Transition classes registered besides the engine's own, as a test or an
\* extension registers them: a side-effect only transition (no target
\* state) and a transition with hooks and validation of its own, each of
\* which may refuse or raise.
TestTransitions(e) ==
    <<TransitionClass("side_effect_only", NoState, FALSE, FALSE, TRUE, {},
                      {"True", "False"},
                      {"pre_hook", "transition", "post_hook"}),
      TransitionClass("custom_transition",
                      IF e = "task" THEN "COMPLETED" ELSE "SUBMITTED",
                      FALSE, TRUE, TRUE, {"is_labeled"},
                      {"True", "False", "raises"},
                      {"pre_hook", "transition", "post_hook"})>>

AllStates == StateChoices("task") \cup StateChoices("annotation")

\* The thread-local data of CurrentContext before anything was set: both
\* keys absent.
NoContext == [fsm_disabled |-> "absent", fsm_enabled_cached |-> "absent"]

\* The locals of a caller that is not inside a call.
NoFrame ==
    [op |-> "none", fsm_enabled |-> TRUE, new_state |-> NoState,
     force_state_record |-> FALSE, current_state |-> NoState,
     lock_acquired |-> FALSE, new_state_record |-> NoRecord, failed |-> FALSE,
     context_state |-> NoState, state_record |-> NoRecord,
     transition_name |-> "none", data_valid |-> TRUE,
     skip_validation |-> FALSE, outer |-> "none", ret |-> "none",
     is_creating |-> FALSE, changed_fields |-> {}, skip_fsm |-> FALSE,
     transitions |-> <<>>, position |-> 1, inferred_state |-> NoState,
     adding |-> FALSE, dirty_fields |-> {}]

\* No UUID7 utility has been called: a generator built at the epoch that has
\* produced nothing, and no id, timestamp or range computed.
NoUuids ==
    [generator |-> [base_timestamp |-> 0, _counter |-> 0],
     offsets |-> <<>>, produced |-> <<>>, id |-> <<>>, timestamp |-> <<>>,
     rebuilt |-> <<>>, bounds |-> <<>>, raised |-> "none"]

\* The tasks a project can hold.
Tasks == {"t1", "t2"}

\* A task that has not been created.
NoTask ==
    [exists |-> FALSE, annotations |-> 0, is_labeled |-> FALSE,
     history |-> <<>>]

\* No project yet, hence no task and no StateRecord.
NoWorkflow ==
    [created |-> FALSE, project |-> <<>>, tasks |-> [t \in Tasks |-> NoTask],
     log |-> <<>>]

\* A dict without keys.
EmptyDict == [k \in {} |-> k]

\* No registry call has been made: the state choices registry as its
\* constructor leaves it.
NoRegistries ==
    [kind |-> "state_choices", dict |-> EmptyDict, registered |-> EmptyDict,
     stored |-> EmptyDict, last |-> <<>>, returned |-> <<>>]

\* No record written on the thread, nothing in its CurrentContext.
NoOrganizations == [context |-> <<>>, writes |-> <<>>]

\* The entities of one annotation submission.
CascadeEntities == {"annotation", "task", "project"}

\* No StateRecord of the three entities, no lock key, nobody inside a call.
NoCascade ==
    [state |-> [e \in CascadeEntities |-> NoState],
     lock |-> [e \in CascadeEntities |-> NoProc],
     stack |-> [p \in Procs |-> <<>>],
     ran |-> [p \in Procs |-> <<>>],
     ended |-> [p \in Procs |-> "none"]]

VARIABLES
    context,  \* per caller: the thread-local data of CurrentContext
              \*   fsm_disabled        the key set by set_fsm_disabled
              \*   fsm_enabled_cached  the key set by _cache_fsm_enabled_state
    registry, \* transition_registry._transitions[entity type], in dict order
    hooks,    \* per caller: the phases its transitions ran in its current or
              \* last call, in order, each with the transition's name
    entity,   \* type of the entity all callers work on
    records,  \* the entity's StateRecords, in id order (id = index)
    cache,    \* fsm_cache[cache_key]: the cached current state, or None
    lock,     \* fsm_cache[lock_key]: the caller that added the key, or nobody
    calls,    \* number of calls started so far
    pc,       \* position of each caller inside its call
    frame,    \* arguments and locals of each caller's call:
              \*   op                  the operation called
              \*   fsm_enabled         the feature flag as the call sees it
              \*   new_state           transition_state's new_state
              \*   force_state_record  transition_state's force_state_record
              \*   current_state       transition_state's / the read's local
              \*   lock_acquired       transition_state's local
              \*   new_state_record    id of the record the call inserted
              \*   failed              an exception left the inner try
              \*   context_state       executor: context.current_state
              \*   state_record        executor: the record given to finalize
              \*   transition_name     executor: the transition asked for
              \*   data_valid          executor: transition_data fits the schema
              \*   skip_validation     executor: context_kwargs skip_validation
              \*   outer               the operation that made this call
              \*   ret                 what the last nested call gave back
              \*   is_creating         save: self._state.adding before the write
              \*   changed_fields      save: names of the changed fields
              \*   skip_fsm            save: the skip_fsm flag of the call
              \*   transitions         save: the transitions discovered
              \*   position            save: index of the next one to execute
              \*   inferred_state      get_or_initialize_state: state to set
              \*   adding              save: self._state.adding of the instance
              \*   dirty_fields        save: fields that differ from
              \*                       self._original_values
    result,   \* what the caller's last call returned or raised
    event,    \* the last event that call's transition_state logged
    uuids,    \* the UUID7 utilities of fsm/utils.py:
              \*   generator   a UUID7Generator: base_timestamp, _counter
              \*   offsets     offset_ms of its last two generate calls
              \*   produced    the ids its last two generate calls returned
              \*   id          the id last produced by any of the utilities
              \*   timestamp   what timestamp_from_uuid7 gave for id
              \*   rebuilt     what uuid7_from_timestamp gave for timestamp
              \*   bounds      what uuid7_time_range returned, with its
              \*               arguments
              \*   raised      the exception the last call raised
    workflow, \* one project handled by one request after another:
              \*   created     the project exists
              \*   project     the project's StateRecords, oldest first
              \*   tasks       per task: exists, number of annotations,
              \*               is_labeled, the task's StateRecords
              \*   log         the requests handled, oldest first: what
              \*               each was, its task, the feature flag it
              \*               saw, the call that failed inside it, the
              \*               exception it raised, and what it found (the
              \*               StateRecords of its task and of the
              \*               project, the other tasks labeled or not)
    registries, \* one of the registries of fsm/registry.py:
              \*   kind        which one: state_choices, state_model or
              \*               transition
              \*   dict        its _choices, _models or _transitions
              \*   registered  per key as the caller wrote it, the value
              \*               last registered under it since the last
              \*               clear()
              \*   stored      the same per key as the registry compares
              \*               keys
              \*   last        the last call: its name, its key, what it
              \*               returned
              \*   returned    the dictionary get_all_models or
              \*               get_transitions_for_entity last returned: the
              \*               object it is and what it holds now
    organizations, \* the organization of the StateRecords of one thread:
              \*   context     what CurrentContext.get_organization_id()
              \*               gives on the thread (<<>> is None)
              \*   writes      the last two calls that wrote a record:
              \*               the call, its organization_id argument, the
              \*               entity, its parent and the user, and the
              \*               organization_id of the record
    cascade   \* an annotation, its task and its project, and the hook
              \* cascade of each caller:
              \*   state  per entity, the state of its latest StateRecord
              \*   lock   per entity, the caller whose cache.add set its
              \*          lock key
              \*   stack  per caller, the calls it is inside, outermost
              \*          first
              \*   ran    per caller, the hook it entered last and the
              \*          entities whose lock key it had set and not yet
              \*          deleted at that time
              \*   ended  per caller, how its outermost call ended

vars ==
    <<context, registry, hooks, entity, records, cache, lock, calls, pc, frame,
      result, event, uuids, workflow, registries,
      organizations, cascade>>

\* ------------------------------------------------------- the record store
\* The largest id among the first n records (NoRecord if n = 0).
RECURSIVE MaxId(_, _)
MaxId(recs, n) ==
    IF n = 0 THEN NoRecord
    ELSE IF recs[n].id > MaxId(recs, n - 1) THEN recs[n].id
         ELSE MaxId(recs, n - 1)

\* state_model.get_current_state(entity): the record with the largest id.
LatestId(recs) == MaxId(recs, Len(recs))

\* The record that has id i.
RecordById(recs, i) == recs[CHOOSE k \in 1..Len(recs) : recs[k].id = i]

\* state_model.get_current_state_value(entity): state of the latest record.
LatestState(recs) ==
    IF Len(recs) = 0 THEN NoState ELSE RecordById(recs, LatestId(recs)).state

\* The ids of the first n records from the largest down, each time taking
\* the largest id below the one taken before (ORDER BY id DESC).
RECURSIVE IdsBelow(_, _)
IdsBelow(recs, bound) ==
    LET below == {k \in 1..Len(recs) : recs[k].id < bound}
    IN  IF below = {} THEN <<>>
        ELSE LET top == CHOOSE k \in below :
                            \A j \in below : recs[j].id <= recs[k].id
             IN  <<recs[top].id>> \o IdsBelow(recs, recs[top].id)

\* state_model.get_state_history(entity): the ids of the entity's records,
\* newest first.
get_state_history(recs) == IdsBelow(recs, LatestId(recs) + 1)

\* state_model.objects.filter(entity).exists()
StateRecordExists(recs) == Len(recs) > 0

\* An id generator that goes backwards (a clock that is set back).
NextIdDescending(recs) == 4 * MaxCalls - Len(recs)

\* The id a new StateRecord gets by default: a time-ordered identifier that
\* is larger than every id handed out before.
NextId(recs) == LatestId(recs) + 1

\* CreateRecord as an update of the newest row in place.
CreateRecordOverwrites(recs, st, prev, who) ==
    IF recs = <<>>
    THEN <<[id |-> NextId(recs), state |-> st, previous_state |-> prev,
            by |-> who]>>
    ELSE [recs EXCEPT ![Len(recs)] =
             [id |-> NextId(recs), state |-> st, previous_state |-> prev,
              by |-> who]]

\* state_model.objects.create(state=, previous_state=, ...): the record gets
\* its id by default. The sequence keeps the records in the order of their
\* creation.
CreateRecord(recs, st, prev, who) ==
    Append(recs, [id |-> NextId(recs), state |-> st,
                  previous_state |-> prev, by |-> who])

\* ------------------------------------------------------------------ Init
\* Nothing has been called yet: no StateRecord, no cache key, no caller
\* inside a call.
Start ==
    /\ context = [p \in Procs |-> NoContext]
    /\ registries = NoRegistries
    /\ organizations = NoOrganizations
    /\ cascade = NoCascade
    /\ uuids = NoUuids
    /\ workflow = NoWorkflow
    /\ hooks = [p \in Procs |-> <<>>]
    /\ records = <<>>
    /\ cache = NoState
    /\ lock = NoProc
    /\ calls = 0
    /\ pc = [p \in Procs |-> "idle"]
    /\ frame = [p \in Procs |-> NoFrame]
    /\ result = [p \in Procs |-> "none"]
    /\ event = [p \in Procs |-> "none"]

\* The engine as it is deployed: the registry holds the transitions the
\* engine registers itself.
Init ==
    /\ entity \in Entities
    /\ registry = TransitionRegistry(entity)
    /\ Start

\* A caller may start a call when it is not inside one.
CanCall(p) == pc[p] \in {"idle", "done"} /\ calls < MaxCalls

\* p starts a call of its own with the arguments and locals fr, at position
\* next.
Enter(p, fr, next) ==
    /\ calls' = calls + 1
    /\ frame' = [frame EXCEPT ![p] = fr]
    /\ result' = [result EXCEPT ![p] = "none"]
    /\ event' = [event EXCEPT ![p] = "none"]
    /\ hooks' = [hooks EXCEPT ![p] = <<>>]
    /\ pc' = [pc EXCEPT ![p] = next]

\* p starts operation o with the arguments given, at position next.
StartCall(p, o, en, s, f, next) ==
    Enter(p, [NoFrame EXCEPT !.op = o, !.fsm_enabled = en, !.new_state = s,
                             !.force_state_record = f], next)

\* The operation p is in (frame[p].outer) calls another one: fr carries the
\* arguments of the call and keeps the locals of the caller.
CallNested(p, fr, next) ==
    /\ frame' = [frame EXCEPT ![p] = fr]
    /\ pc' = [pc EXCEPT ![p] = next]
    /\ UNCHANGED result

\* p is inside a call made by the operation frame[p].outer.
Nested(p) == frame[p].outer \notin {"none", frame[p].op}

\* The locals of the calling operation, once the call it made is over.
OuterFrame(fr) ==
    [NoFrame EXCEPT !.op = fr.outer, !.outer = fr.outer,
                    !.fsm_enabled = fr.fsm_enabled,
                    !.is_creating = fr.is_creating,
                    !.changed_fields = fr.changed_fields,
                    !.skip_fsm = fr.skip_fsm,
                    !.transitions = fr.transitions,
                    !.position = fr.position,
                    !.inferred_state = fr.inferred_state]

\* Where the calling operation goes on after the call it made.
ReturnTo(fr) ==
    CASE fr.outer = "save" -> "sv_next"
      [] fr.outer = "warm_cache" -> "wc_set"
      [] fr.outer = "get_or_initialize_state" ->
            IF fr.op = "get_current_state_value" THEN "goi_check"
            ELSE "goi_done"

\* The call of p ends with outcome r, its locals are gone: a call of p's own
\* hands r to p, a nested call hands it to the operation that made it.
Finish(p, r) ==
    IF Nested(p)
    THEN /\ pc' = [pc EXCEPT ![p] = ReturnTo(frame[p])]
         /\ frame' = [frame EXCEPT ![p] = [OuterFrame(frame[p]) EXCEPT !.ret = r]]
         /\ UNCHANGED result
    ELSE /\ pc' = [pc EXCEPT ![p] = "done"]
         /\ result' = [result EXCEPT ![p] = r]
         /\ frame' = [frame EXCEPT ![p] = NoFrame]

\* A phase of a transition that returned (ok) or raised / refused (not ok).
Phase(name, ok) == [ph |-> name, ok |-> ok]

\* The transition of p's call runs the phases phs, in this order.
RunPhases(p, phs) ==
    hooks' = [hooks EXCEPT ![p] =
                 @ \o [i \in 1..Len(phs) |->
                          [t |-> frame[p].transition_name,
                           ph |-> phs[i].ph, ok |-> phs[i].ok]]]

\* p goes on at position next with local l set to v.
Step(p, next, l, v) ==
    /\ pc' = [pc EXCEPT ![p] = next]
    /\ frame' = [frame EXCEPT ![p][l] = v]
    /\ UNCHANGED result

Goto(p, next) ==
    /\ pc' = [pc EXCEPT ![p] = next]
    /\ UNCHANGED <<frame, result>>

Log(p, ev) == event' = [event EXCEPT ![p] = ev]

\* ------------------------------------ StateManager.get_current_state_value
\* Entry: with the feature flag off the call returns None at once.
CallGetCurrentStateValue(p) ==
    /\ CanCall(p)
    /\ \E en \in BOOLEAN :
          /\ StartCall(p, "get_current_state_value", en, NoState, FALSE,
                       IF en THEN "gcs_get" ELSE "gcs_off")
    /\ UNCHANGED <<cascade, organizations, registries, uuids, workflow, context, registry, entity, records, cache, lock>>

\* if not cls._is_fsm_enabled(): return None
ReadDisabled(p) ==
    /\ pc[p] = "gcs_off"
    /\ Finish(p, NoState)
    /\ UNCHANGED <<cascade, organizations, registries, uuids, workflow, context, registry, hooks, entity, records, cache, lock, calls, event>>

\* The read ends with value v: get_current_state_value returns it, a
\* transition_state that called the read goes on with current_state = v.
AfterRead(p, v) ==
    IF frame[p].op = "get_current_state_value"
    THEN Finish(p, v)
    ELSE Step(p, "ts_check", "current_state", v)

\* cached_state = fsm_cache.get(cache_key); a hit is returned at once.
CacheGet(p) ==
    /\ pc[p] = "gcs_get"
    /\ IF cache # NoState THEN AfterRead(p, cache) ELSE Goto(p, "gcs_db")
    /\ UNCHANGED <<cascade, organizations, registries, uuids, workflow, context, registry, hooks, entity, records, cache, lock, calls, event>>

\* current_state = state_model.get_current_state_value(entity); a value that
\* is not None goes on to be cached, None is returned as it is.
DbRead(p) ==
    /\ pc[p] = "gcs_db"
    /\ IF LatestState(records) # NoState
       THEN Step(p, "gcs_set", "current_state", LatestState(records))
       ELSE AfterRead(p, NoState)
    /\ UNCHANGED <<cascade, organizations, registries, uuids, workflow, context, registry, hooks, entity, records, cache, lock, calls, event>>

\* The query raises: the error is logged and wrapped in StateManagerError,
\* which also ends a transition_state that called the read (the call is
\* outside its try).
DbReadFails(p) ==
    /\ pc[p] = "gcs_db"
    /\ Finish(p, "StateManagerError")
    /\ UNCHANGED <<cascade, organizations, registries, uuids, workflow, context, registry, hooks, entity, records, cache, lock, calls, event>>

\* fsm_cache.set(cache_key, current_state, CACHE_TTL); return current_state
CacheFill(p) ==
    /\ pc[p] = "gcs_set"
    /\ cache' = frame[p].current_state
    /\ AfterRead(p, frame[p].current_state)
    /\ UNCHANGED <<cascade, organizations, registries, uuids, workflow, context, registry, hooks, entity, records, lock, calls, event>>

\* ------------------------------------------- StateManager.transition_state
\* Entry: with the feature flag off the call returns True at once; otherwise
\* it resolves current_state by get_current_state_value.
CallTransitionState(p) ==
    /\ CanCall(p)
    /\ \E s \in StateChoices(entity), f \in BOOLEAN, en \in BOOLEAN :
          StartCall(p, "transition_state", en, s, f,
                    IF en THEN "gcs_get" ELSE "ts_off")
    /\ UNCHANGED <<cascade, organizations, registries, uuids, workflow, context, registry, entity, records, cache, lock>>

\* transition_state is over with outcome r: a direct call hands r to its
\* caller; inside execute_transition True leads on to the fetch of the
\* current record, an exception propagates.
EndTransitionState(p, r) ==
    IF frame[p].op = "execute_transition" /\ r = "True"
    THEN Goto(p, "ex_fetch")
    ELSE Finish(p, r)

\* TransitionDisabled without the early return: the call goes on to resolve
\* the current state as if the feature were on.
TransitionDisabledGoesOn(p) ==
    /\ pc[p] = "ts_off"
    /\ Goto(p, "gcs_get")
    /\ UNCHANGED <<cascade, organizations, registries, uuids, workflow, context, registry, hooks, entity, records, cache, lock, calls, event>>

\* if not cls._is_fsm_enabled(user=user): return True
TransitionDisabled(p) ==
    /\ pc[p] = "ts_off"
    /\ EndTransitionState(p, "True")
    /\ UNCHANGED <<cascade, organizations, registries, uuids, workflow, context, registry, hooks, entity, records, cache, lock, calls, event>>

\* SameStateCheck without the short-circuit: every call goes for the lock.
SameStateCheckNeverSkips(p) ==
    /\ pc[p] = "ts_check"
    /\ Goto(p, "ts_lock")
    /\ UNCHANGED <<cascade, organizations, registries, uuids, workflow, context, registry, hooks, entity, records, cache, lock, calls, event>>

\* SameStateCheck that does not look at force_state_record.
SameStateCheckIgnoresForce(p) ==
    /\ pc[p] = "ts_check"
    /\ IF /\ frame[p].current_state = frame[p].new_state
          /\ StateRecordExists(records)
       THEN EndTransitionState(p, "True")
       ELSE Goto(p, "ts_lock")
    /\ UNCHANGED <<cascade, organizations, registries, uuids, workflow, context, registry, hooks, entity, records, cache, lock, calls, event>>

\* Same-state short-circuit: the state is unchanged, no record is forced and
\* a StateRecord of the entity exists: return True; otherwise go for the lock.
SameStateCheck(p) ==
    /\ pc[p] = "ts_check"
    /\ IF /\ frame[p].current_state = frame[p].new_state
          /\ ~frame[p].force_state_record
          /\ StateRecordExists(records)
       THEN EndTransitionState(p, "True")
       ELSE Goto(p, "ts_lock")
    /\ UNCHANGED <<cascade, organizations, registries, uuids, workflow, context, registry, hooks, entity, records, cache, lock, calls, event>>

\* lock_acquired = fsm_cache.add(lock_key, 'locked', timeout=5): the key is
\* created only if it is absent.
LockAcquire(p) ==
    /\ pc[p] = "ts_lock"
    /\ lock = NoProc
    /\ lock' = p
    /\ Step(p, "ts_insert", "lock_acquired", TRUE)
    /\ UNCHANGED <<cascade, organizations, registries, uuids, workflow, context, registry, hooks, entity, records, cache, calls, event>>

\* LockBusy as it would be if the key were written with set instead of add:
\* the caller overwrites the key and enters the locked section.
LockBusyOverwrites(p) ==
    /\ pc[p] = "ts_lock"
    /\ lock # NoProc
    /\ lock' = p
    /\ Step(p, "ts_insert", "lock_acquired", TRUE)
    /\ UNCHANGED <<cascade, organizations, registries, uuids, workflow, context, registry, hooks, entity, records, cache, calls, event>>

\* LockBusy as it would be if lock contention were reported as a failure.
LockBusyRaises(p) ==
    /\ pc[p] = "ts_lock"
    /\ lock # NoProc
    /\ Log(p, "concurrent_transition_skipped")
    /\ Finish(p, "StateManagerError")
    /\ UNCHANGED <<cascade, organizations, registries, uuids, workflow, context, registry, hooks, entity, records, cache, lock, calls>>

\* The key is present: log "Concurrent transition detected, skipping" and
\* return True.
LockBusy(p) ==
    /\ pc[p] = "ts_lock"
    /\ lock # NoProc
    /\ Log(p, "concurrent_transition_skipped")
    /\ EndTransitionState(p, "True")
    /\ UNCHANGED <<cascade, organizations, registries, uuids, workflow, context, registry, hooks, entity, records, cache, lock, calls>>

\* new_state_record = state_model.objects.create(state=new_state,
\* previous_state=current_state, ...), after get_denormalized_fields and the
\* organization lookup, which touch nothing shared.
InsertRecord(p) ==
    /\ pc[p] = "ts_insert"
    /\ records' = CreateRecord(records, frame[p].new_state,
                               frame[p].current_state, p)
    /\ Step(p, "ts_cache_set", "new_state_record", LatestId(records'))
    /\ IF frame[p].op = "execute_transition"
       THEN RunPhases(p, <<Phase("persist", TRUE)>>)
       ELSE UNCHANGED hooks
    /\ UNCHANGED <<cascade, organizations, registries, uuids, workflow, context, registry, entity, cache, lock, calls, event>>

\* An exception leaves the inner try towards its finally.
RaiseInTry(p) ==
    /\ Step(p, "ts_finally", "failed", TRUE)
    /\ UNCHANGED <<cascade, organizations, registries, uuids, workflow, context, registry, hooks, entity, records, cache, lock, calls, event>>

\* state_model.get_denormalized_fields(entity) raises.
DenormFails(p) ==
    /\ pc[p] = "ts_insert"
    /\ RaiseInTry(p)

\* state_model.objects.create raises: the INSERT did not commit.
InsertFails(p) ==
    /\ pc[p] = "ts_insert"
    /\ RaiseInTry(p)

\* Write-through: fsm_cache.set(cache_key, new_state, CACHE_TTL), then the
\* success is logged.
CacheWriteThrough(p) ==
    /\ pc[p] = "ts_cache_set"
    /\ cache' = frame[p].new_state
    /\ Log(p, "transition_state_success")
    /\ Goto(p, "ts_finally")
    /\ UNCHANGED <<cascade, organizations, registries, uuids, workflow, context, registry, hooks, entity, records, lock, calls>>

\* fsm_cache.set raises; the record of the INSERT is already committed.
CacheWriteFails(p) ==
    /\ pc[p] = "ts_cache_set"
    /\ RaiseInTry(p)

\* ReleaseLock as it would be without the finally clause: the key is deleted
\* on the way to return True only.
ReleaseLockOnSuccessOnly(p) ==
    /\ pc[p] = "ts_finally"
    /\ IF frame[p].failed
       THEN Goto(p, "ts_exc_lock") /\ UNCHANGED lock
       ELSE lock' = NoProc /\ EndTransitionState(p, "True")
    /\ UNCHANGED <<cascade, organizations, registries, uuids, workflow, context, registry, hooks, entity, records, cache, calls, event>>

\* finally: fsm_cache.delete(lock_key); then return True, or the exception
\* reaches the outer except.
ReleaseLock(p) ==
    /\ pc[p] = "ts_finally"
    /\ lock' = NoProc
    /\ IF frame[p].failed
       THEN Goto(p, "ts_exc_lock")
       ELSE EndTransitionState(p, "True")
    /\ UNCHANGED <<cascade, organizations, registries, uuids, workflow, context, registry, hooks, entity, records, cache, calls, event>>

\* except Exception: fsm_cache.delete(lock_key)
HandlerDeleteLock(p) ==
    /\ pc[p] = "ts_exc_lock"
    /\ lock' = NoProc
    /\ Goto(p, "ts_exc_cache")
    /\ UNCHANGED <<cascade, organizations, registries, uuids, workflow, context, registry, hooks, entity, records, cache, calls, event>>

\* fsm_cache.delete(cache_key); log the failure;
\* raise StateManagerError(...) from e
HandlerInvalidateAndRaise(p) ==
    /\ pc[p] = "ts_exc_cache"
    /\ cache' = NoState
    /\ Log(p, "transition_state_failed")
    /\ EndTransitionState(p, "StateManagerError")
    /\ UNCHANGED <<cascade, organizations, registries, uuids, workflow, context, registry, hooks, entity, records, lock, calls>>

\* -------------------------------------------- StateManager.invalidate_cache
InvalidateCache(p) ==
    /\ CanCall(p)
    /\ calls' = calls + 1
    /\ cache' = NoState
    /\ Finish(p, NoState)
    /\ Log(p, "none")
    /\ hooks' = [hooks EXCEPT ![p] = <<>>]
    /\ UNCHANGED <<cascade, organizations, registries, uuids, workflow, context, registry, entity, records, lock>>

\* ------------------ execute_transition_with_state_manager (the executor)
\* transition_registry.get_transition(entity_name, n) is not None
Registered(n) == \E i \in 1..Len(registry) : registry[i].name = n

\* transition_registry.get_transition(entity_name, n)
get_transition(n) ==
    registry[CHOOSE i \in 1..Len(registry) : registry[i].name = n]

RegisteredNames == {registry[i].name : i \in 1..Len(registry)}

\* The arguments of execute_transition(entity, n, transition_data, ...,
\* skip_validation=k) in a frame that keeps the locals of base; target_state
\* and force_state_record are those of the class registered as n.
ExecuteFrame(base, n, en, d, k) ==
    [base EXCEPT !.op = "execute_transition", !.fsm_enabled = en,
                 !.transition_name = n, !.data_valid = d,
                 !.skip_validation = k,
                 !.new_state = IF Registered(n) THEN get_transition(n).target
                               ELSE NoState,
                 !.force_state_record = IF Registered(n)
                                        THEN get_transition(n).force
                                        ELSE FALSE]

\* p calls execute_transition with a transition name of names, transition
\* data that fit the schema or not (datas) and skip_validation of skips.
ExecuteTransitionCall(p, names, datas, skips) ==
    /\ CanCall(p)
    /\ \E n \in names, d \in datas, k \in skips, en \in BOOLEAN :
          Enter(p, ExecuteFrame(NoFrame, n, en, d, k), "ex_context")
    /\ UNCHANGED <<cascade, organizations, registries, uuids, workflow, context, registry, entity, records, cache, lock>>

\* execute_transition as the engine itself calls it: a registered name,
\* data that fit, no skip_validation.
CallExecuteTransition(p) ==
    ExecuteTransitionCall(p, RegisteredNames, {TRUE}, {FALSE})

\* execute_transition as any caller of the API may call it.
CallExecuteTransitionAny(p) ==
    ExecuteTransitionCall(p, RegisteredNames \cup {Unregistered}, BOOLEAN,
                          BOOLEAN)

\* What prepare_and_validate of transition class t can come to with the
\* current state ctx: "invalid" (validate_transition returns False),
\* "validate_raises", "pre_hook_raises", "transition_raises", "prepared".
PrepareOutcomes(t, skip, ctx) ==
    LET validates == skip \/ (/\ can_transition_from_state(t.target, ctx)
                              /\ "True" \in t.should_execute)
    IN  (IF ~skip /\ (\/ ~can_transition_from_state(t.target, ctx)
                      \/ "False" \in t.should_execute)
         THEN {"invalid"} ELSE {})
        \cup (IF ~skip /\ "raises" \in t.should_execute
              THEN {"validate_raises"} ELSE {})
        \cup (IF validates /\ "pre_hook" \in t.may_raise
              THEN {"pre_hook_raises"} ELSE {})
        \cup (IF validates /\ "transition" \in t.may_raise
              THEN {"transition_raises"} ELSE {})
        \cup (IF validates THEN {"prepared"} ELSE {})

\* prepare_and_validate with the pre hook called ahead of the validation.
PreparePhasesHookFirst(o, skip) ==
    <<Phase("pre_hook", o # "pre_hook_raises")>>
    \o (IF skip \/ o = "pre_hook_raises" THEN <<>>
        ELSE <<Phase("validate", o \notin {"invalid", "validate_raises"})>>)
    \o (IF o \in {"transition_raises", "prepared"}
        THEN <<Phase("transition", o = "prepared")>> ELSE <<>>)

\* The phases prepare_and_validate has entered when it comes to outcome o:
\* validate_transition unless skip_validation, then the pre hook, then
\* transition(); the phase that fails is the last one.
PreparePhases(o, skip) ==
    (IF skip THEN <<>>
     ELSE <<Phase("validate", o \notin {"invalid", "validate_raises"})>>)
    \o (CASE o \in {"invalid", "validate_raises"} -> <<>>
          [] o = "pre_hook_raises" -> <<Phase("pre_hook", FALSE)>>
          [] OTHER -> <<Phase("pre_hook", TRUE),
                        Phase("transition", o = "prepared")>>)

\* prepare_and_validate with an except clause that drops the exception and
\* returns None.
PrepareErrorDropped(o) == NoState

\* The exception prepare_and_validate lets through for outcome o.
PrepareError(o) ==
    IF o \in {"invalid", "validate_raises"}
    THEN "TransitionValidationError" ELSE "HookError"

\* BuildContextAndPrepare with a prepare_and_validate that drops what
\* transition() raises and goes on to the state record.
BuildContextAndPrepareGoesOn(p) ==
    /\ pc[p] = "ex_context"
    /\ IF ~Registered(frame[p].transition_name)
       THEN Finish(p, "ValueError") /\ UNCHANGED hooks
       ELSE IF ~frame[p].data_valid
       THEN Finish(p, "ValidationError") /\ UNCHANGED hooks
       ELSE LET t == get_transition(frame[p].transition_name)
                ctx == IF t.target = NoState THEN NoState
                       ELSE LatestState(records)
                skip == frame[p].skip_validation
            IN  \E o \in PrepareOutcomes(t, skip, ctx) :
                   /\ RunPhases(p, PreparePhases(o, skip))
                   /\ IF o \in {"prepared", "transition_raises"}
                      THEN Step(p, IF t.target = NoState THEN "ex_side"
                                   ELSE IF frame[p].fsm_enabled THEN "gcs_get"
                                   ELSE "ts_off",
                                "context_state", ctx)
                      ELSE Finish(p, PrepareError(o))
    /\ UNCHANGED <<cascade, organizations, registries, uuids, workflow, context, registry, entity, records, cache, lock, calls, event>>

\* Lookup of the transition class (ValueError if there is none), the
\* instance built from transition_data (schema error if they do not fit),
\* target_state, current_state_object = state_model.get_current_state(entity)
\* for the full context unless the transition is side-effect only, then
\* prepare_and_validate: validate_transition unless skipped, pre hook and
\* transition(); what they raise is raised to the caller.
BuildContextAndPrepare(p) ==
    /\ pc[p] = "ex_context"
    /\ IF ~Registered(frame[p].transition_name)
       THEN Finish(p, "ValueError") /\ UNCHANGED hooks
       ELSE IF ~frame[p].data_valid
       THEN Finish(p, "ValidationError") /\ UNCHANGED hooks
       ELSE LET t == get_transition(frame[p].transition_name)
                ctx == IF t.target = NoState THEN NoState
                       ELSE LatestState(records)
                skip == frame[p].skip_validation
            IN  \E o \in PrepareOutcomes(t, skip, ctx) :
                   /\ RunPhases(p, PreparePhases(o, skip))
                   /\ IF o = "prepared"
                      THEN Step(p, IF t.target = NoState THEN "ex_side"
                                   ELSE IF frame[p].fsm_enabled THEN "gcs_get"
                                   ELSE "ts_off",
                                "context_state", ctx)
                      ELSE Finish(p, PrepareError(o))
    /\ UNCHANGED <<cascade, organizations, registries, uuids, workflow, context, registry, entity, records, cache, lock, calls, event>>

\* What post_transition_hook of the transition p executes can do.
PostHookOutcomes(p) ==
    {"ok"} \cup (IF "post_hook" \in get_transition(frame[p].transition_name).may_raise
                 THEN {"raises"} ELSE {})

\* The executor without its is_side_effect_only branch: the transition goes
\* on to transition_state like any other.
SideEffectOnlyPersists(p) ==
    /\ pc[p] = "ex_side"
    /\ Goto(p, "gcs_get")
    /\ UNCHANGED <<cascade, organizations, registries, uuids, workflow, context, registry, hooks, entity, records, cache, lock, calls, event>>

\* Side-effect only transition: transition.post_transition_hook(context,
\* None); return None. No state model, no StateManager call.
SideEffectOnly(p) ==
    /\ pc[p] = "ex_side"
    /\ \E o \in PostHookOutcomes(p) :
          /\ RunPhases(p, <<Phase("post_hook", o = "ok")>>)
          /\ Finish(p, IF o = "ok" THEN NoState ELSE "HookError")
    /\ UNCHANGED <<cascade, organizations, registries, uuids, workflow, context, registry, entity, records, cache, lock, calls, event>>

\* state_record = state_manager_class.get_current_state_object(entity)
FetchRecord(p) ==
    /\ pc[p] = "ex_fetch"
    /\ Step(p, "ex_finalize", "state_record", LatestId(records))
    /\ UNCHANGED <<cascade, organizations, registries, uuids, workflow, context, registry, hooks, entity, records, cache, lock, calls, event>>

\* transition.finalize(context, state_record): the post hook runs inside
\* try/finally, so what it raises is raised to the caller of
\* execute_transition; otherwise return state_record.
Finalize(p) ==
    /\ pc[p] = "ex_finalize"
    /\ \E o \in PostHookOutcomes(p) :
          /\ RunPhases(p, <<Phase("post_hook", o = "ok")>>)
          /\ Finish(p, IF o = "raises" THEN "HookError"
                       ELSE IF frame[p].state_record = NoRecord THEN NoState
                       ELSE "StateRecord")
    /\ UNCHANGED <<cascade, organizations, registries, uuids, workflow, context, registry, entity, records, cache, lock, calls, event>>

\* ------------------------------------------- FsmHistoryStateModel (save)
\* for field in trigger_fields: if field in changed_fields: ... break
RECURSIVE AnyFieldChanged(_, _)
AnyFieldChanged(trigger_fields, changed_fields) ==
    IF trigger_fields = {} THEN FALSE
    ELSE LET field == CHOOSE f \in trigger_fields : TRUE
         IN  IF field \in changed_fields THEN TRUE
             ELSE AnyFieldChanged(trigger_fields \ {field}, changed_fields)

\* TriggerSelected without the look at trigger_fields.
TriggerSelectedIgnoresFields(t, is_creating, changed_fields) ==
    IF is_creating /\ t.triggers_on_create THEN TRUE
    ELSE ~is_creating /\ t.triggers_on_update

\* The trigger metadata check of _determine_fsm_transitions for one class.
TriggerSelected(t, is_creating, changed_fields) ==
    IF is_creating /\ t.triggers_on_create THEN TRUE
    ELSE IF ~is_creating /\ t.triggers_on_update
         THEN IF t.trigger_fields = {} THEN TRUE
              ELSE AnyFieldChanged(t.trigger_fields, changed_fields)
         ELSE FALSE

\* The loop of _determine_fsm_transitions over the registered transitions
\* from position i on: a class the trigger metadata select has its
\* should_execute evaluated, with the outcome se[i]; the result is the
\* sequence of the evaluations made, in the order of the loop.
RECURSIVE Evaluations(_, _, _, _, _)
Evaluations(reg, i, is_creating, changed_fields, se) ==
    IF i > Len(reg) THEN <<>>
    ELSE (IF TriggerSelected(reg[i], is_creating, changed_fields)
          THEN <<[t |-> reg[i].name, ph |-> "should_execute",
                  ok |-> se[i] = "True", outcome |-> se[i]]>>
          ELSE <<>>)
         \o Evaluations(reg, i + 1, is_creating, changed_fields, se)

\* transitions_to_execute when the outcome of should_execute is not looked at.
RECURSIVE ToExecuteKeepsAll(_)
ToExecuteKeepsAll(evals) ==
    IF evals = <<>> THEN <<>>
    ELSE <<Head(evals).t>> \o ToExecuteKeepsAll(Tail(evals))

\* transitions_to_execute: a selected class stays unless its should_execute
\* returned False; one whose should_execute raised stays.
RECURSIVE ToExecute(_)
ToExecute(evals) ==
    IF evals = <<>> THEN <<>>
    ELSE (IF Head(evals).outcome = "False" THEN <<>> ELSE <<Head(evals).t>>)
         \o ToExecute(Tail(evals))

\* The evaluations without their outcome, as the hooks variable records them.
AsPhases(evals) ==
    [i \in 1..Len(evals) |->
        [t |-> evals[i].t, ph |-> evals[i].ph, ok |-> evals[i].ok]]

\* What should_execute of each registered class does in one discovery.
ShouldExecuteOutcomes ==
    {se \in [1..Len(registry) -> {"True", "False", "raises"}] :
        \A i \in 1..Len(registry) : se[i] \in registry[i].should_execute}

\* Only the first operation on an entity can be the save that creates it.
SaveInputs ==
    {<<c, f>> \in BOOLEAN \X SUBSET Fields :
        c => (f = {} /\ calls = 0 /\ records = <<>>)}

\* entity.save(skip_fsm=skip) on a thread whose CurrentContext.is_fsm_enabled()
\* is en: is_creating and changed_fields are captured before the write.
SaveCall(p, skips, ens) ==
    /\ CanCall(p)
    /\ \E in \in SaveInputs, skip \in skips, en \in ens :
          Enter(p, [NoFrame EXCEPT !.op = "save", !.outer = "save",
                                   !.fsm_enabled = en, !.skip_fsm = skip,
                                   !.is_creating = in[1],
                                   !.changed_fields = in[2],
                                   !.adding = in[1],
                                   !.dirty_fields = in[2]], "sv_write")
    /\ UNCHANGED <<cascade, organizations, registries, uuids, workflow, context, registry, entity, records, cache, lock>>

\* A save with any skip_fsm, on a thread with FSM enabled or not.
CallSave(p) == SaveCall(p, BOOLEAN, BOOLEAN)

\* instance._determine_fsm_transitions(is_creating, changed_fields) called
\* on its own.
CallDetermineTransitions(p) ==
    /\ CanCall(p)
    /\ \E in \in SaveInputs :
          Enter(p, [NoFrame EXCEPT !.op = "_determine_fsm_transitions",
                                   !.is_creating = in[1],
                                   !.changed_fields = in[2]], "sv_discover")
    /\ UNCHANGED <<cascade, organizations, registries, uuids, workflow, context, registry, entity, records, cache, lock>>

\* EntityWrite with is_creating and changed_fields taken from the instance
\* after the write.
EntityWriteRecaptures(p) ==
    /\ pc[p] = "sv_write"
    /\ IF frame[p].skip_fsm \/ ~frame[p].fsm_enabled
       THEN Finish(p, "saved")
       ELSE /\ pc' = [pc EXCEPT ![p] = "sv_discover"]
            /\ frame' = [frame EXCEPT ![p].adding = FALSE,
                                      ![p].dirty_fields = {},
                                      ![p].is_creating = FALSE,
                                      ![p].changed_fields = {}]
            /\ UNCHANGED result
    /\ UNCHANGED <<cascade, organizations, registries, uuids, workflow, context, registry, hooks, entity, records, cache, lock, calls, event>>

\* result = super().save(): the entity write, after which the instance is
\* no longer adding and _original_values are the current values; then
\* should_execute = not skip_fsm and self._should_execute_fsm(). Without FSM
\* processing save returns result.
EntityWrite(p) ==
    /\ pc[p] = "sv_write"
    /\ IF frame[p].skip_fsm \/ ~frame[p].fsm_enabled
       THEN Finish(p, "saved")
       ELSE /\ pc' = [pc EXCEPT ![p] = "sv_discover"]
            /\ frame' = [frame EXCEPT ![p].adding = FALSE,
                                      ![p].dirty_fields = {}]
            /\ UNCHANGED result
    /\ UNCHANGED <<cascade, organizations, registries, uuids, workflow, context, registry, hooks, entity, records, cache, lock, calls, event>>

\* super().save() raises: the exception is raised to the caller of save.
EntityWriteFails(p) ==
    /\ pc[p] = "sv_write"
    /\ Finish(p, "DatabaseError")
    /\ UNCHANGED <<cascade, organizations, registries, uuids, workflow, context, registry, hooks, entity, records, cache, lock, calls, event>>

\* transitions = self._determine_fsm_transitions(is_creating, changed_fields)
DetermineTransitions(p) ==
    /\ pc[p] = "sv_discover"
    /\ \E se \in ShouldExecuteOutcomes :
          LET evals == Evaluations(registry, 1, frame[p].is_creating,
                                   frame[p].changed_fields, se)
          IN  /\ hooks' = [hooks EXCEPT ![p] = @ \o AsPhases(evals)]
              /\ IF frame[p].op = "save"
                 THEN Step(p, "sv_loop", "transitions", ToExecute(evals))
                 ELSE Finish(p, "transitions")
    /\ UNCHANGED <<cascade, organizations, registries, uuids, workflow, context, registry, entity, records, cache, lock, calls, event>>

\* _determine_fsm_transitions (an override of it) raises: save logs
\* fsm.transition_discovery_failed and returns result.
DiscoveryFails(p) ==
    /\ pc[p] = "sv_discover"
    /\ IF frame[p].op = "save"
       THEN Log(p, "transition_discovery_failed") /\ Finish(p, "saved")
       ELSE UNCHANGED event /\ Finish(p, "Exception")
    /\ UNCHANGED <<cascade, organizations, registries, uuids, workflow, context, registry, hooks, entity, records, cache, lock, calls>>

\* for transition_name in transitions: self._execute_fsm_transition(...),
\* which calls StateManager.execute_transition with the transition data of
\* the model; after the last one save returns result.
ExecuteNext(p) ==
    /\ pc[p] = "sv_loop"
    /\ IF frame[p].position > Len(frame[p].transitions)
       THEN Finish(p, "saved") /\ UNCHANGED hooks
       ELSE LET n == frame[p].transitions[frame[p].position]
            IN  /\ \E d \in BOOLEAN :
                      CallNested(p, ExecuteFrame(
                                       [frame[p] EXCEPT !.position = @ + 1],
                                       n, frame[p].fsm_enabled, d, FALSE),
                                 "ex_context")
                /\ hooks' = [hooks EXCEPT ![p] =
                                 Append(@, [t |-> n, ph |-> "execute_transition",
                                            ok |-> TRUE])]
    /\ UNCHANGED <<cascade, organizations, registries, uuids, workflow, context, registry, entity, records, cache, lock, calls, event>>

\* What execute_transition gave back is an exception.
IsError(r) ==
    r \in {"ValueError", "ValidationError", "TransitionValidationError",
           "HookError", "StateManagerError"}

\* AfterTransition without the except clause around the transition: what
\* the transition raised leaves save.
AfterTransitionRaises(p) ==
    /\ pc[p] = "sv_next"
    /\ IF IsError(frame[p].ret)
       THEN Log(p, "transition_failed_on_save") /\ Finish(p, frame[p].ret)
       ELSE UNCHANGED event /\ Goto(p, "sv_loop")
    /\ UNCHANGED <<cascade, organizations, registries, uuids, workflow, context, registry, hooks, entity, records, cache, lock, calls>>

\* except Exception around one transition: the failure is logged
\* (fsm.transition_failed_on_save) and the loop goes on.
AfterTransition(p) ==
    /\ pc[p] = "sv_next"
    /\ IF IsError(frame[p].ret)
       THEN Log(p, "transition_failed_on_save")
       ELSE UNCHANGED event
    /\ Goto(p, "sv_loop")
    /\ UNCHANGED <<cascade, organizations, registries, uuids, workflow, context, registry, hooks, entity, records, cache, lock, calls>>

\* ------------------------ StateManager.get_state_history / in_time_range
\* A call that only reads and returns at once with outcome r.
ReadOnlyCall(p, r) ==
    /\ CanCall(p)
    /\ calls' = calls + 1
    /\ Finish(p, r)
    /\ Log(p, "none")
    /\ hooks' = [hooks EXCEPT ![p] = <<>>]
    /\ UNCHANGED <<cascade, organizations, registries, uuids, workflow, registry, entity, records, cache, lock>>

\* return state_model.get_state_history(entity): the query set of the
\* records of the entity, newest first.
CallGetStateHistory(p) == UNCHANGED context /\ ReadOnlyCall(p, "QuerySet")

\* return state_model.get_states_in_range(entity, start_time, end_time)
CallGetStatesInTimeRange(p) == UNCHANGED context /\ ReadOnlyCall(p, "List")

\* ------------------------------------------------ StateManager.warm_cache
\* warm_cache([entity]): the loop reads the current state of the entity by
\* get_current_state_value.
CallWarmCache(p) ==
    /\ CanCall(p)
    /\ \E en \in BOOLEAN :
          Enter(p, [NoFrame EXCEPT !.op = "get_current_state_value",
                                   !.outer = "warm_cache",
                                   !.fsm_enabled = en],
                IF en THEN "gcs_get" ELSE "gcs_off")
    /\ UNCHANGED <<cascade, organizations, registries, uuids, workflow, context, registry, entity, records, cache, lock>>

\* if current_state: cache_updates[cache_key] = current_state; then
\* fsm_cache.set_many(cache_updates, CACHE_TTL) when there is an update. An
\* exception of the read leaves warm_cache.
WarmCacheSet(p) ==
    /\ pc[p] = "wc_set"
    /\ IF IsError(frame[p].ret)
       THEN UNCHANGED <<cache, event>> /\ Finish(p, frame[p].ret)
       ELSE IF frame[p].ret = NoState
       THEN UNCHANGED <<cache, event>> /\ Finish(p, NoState)
       ELSE /\ cache' = frame[p].ret
            /\ Log(p, "cache_warmed")
            /\ Finish(p, NoState)
    /\ UNCHANGED <<cascade, organizations, registries, uuids, workflow, context, registry, hooks, entity, records, lock, calls>>

\* ------------------------------------------- utils.get_or_initialize_state
\* _get_initialization_transition_name(entity_type, target_state)
InitializationTransitionName(e, s) ==
    CASE e = "task" /\ s = "CREATED" -> "task_created"
      [] e = "task" /\ s = "COMPLETED" -> "task_completed"
      [] e = "task" /\ s = "IN_PROGRESS" -> "task_in_progress"
      [] e = "project" /\ s = "CREATED" -> "project_created"
      [] e = "project" /\ s = "IN_PROGRESS" -> "project_in_progress"
      [] e = "project" /\ s = "COMPLETED" -> "project_completed"
      [] e = "annotation" /\ s = "SUBMITTED" -> "annotation_submitted"
      [] e = "annotation" /\ s = "COMPLETED" -> "annotation_submitted"
      [] OTHER -> "none"

\* The states get_or_initialize_state initializes an entity to: those
\* infer_entity_state_from_data gives and those a caller passes as
\* inferred_state that have an initialization transition.
InferredStates(e) ==
    IF e = "task" THEN {"CREATED", "COMPLETED"} ELSE {"SUBMITTED", "COMPLETED"}

\* get_or_initialize_state(entity, user, inferred_state): with the feature
\* flag off it returns None at once, otherwise it reads the current state.
\* inferred_state is the state passed or inferred from the entity data.
CallGetOrInitializeState(p) ==
    /\ CanCall(p)
    /\ \E en \in BOOLEAN, inf \in InferredStates(entity) :
          Enter(p, [NoFrame EXCEPT !.op = IF en THEN "get_current_state_value"
                                         ELSE "get_or_initialize_state",
                                   !.outer = "get_or_initialize_state",
                                   !.fsm_enabled = en,
                                   !.inferred_state = inf],
                IF en THEN "gcs_get" ELSE "goi_off")
    /\ UNCHANGED <<cascade, organizations, registries, uuids, workflow, context, registry, entity, records, cache, lock>>

\* if not is_fsm_enabled(user): return None
InitializeDisabled(p) ==
    /\ pc[p] = "goi_off"
    /\ Finish(p, NoState)
    /\ UNCHANGED <<cascade, organizations, registries, uuids, workflow, context, registry, hooks, entity, records, cache, lock, calls, event>>

\* A current state is returned as it is; without one the initialization
\* transition of the inferred state is executed. An exception of the read is
\* logged and None returned.
InitializeCheck(p) ==
    /\ pc[p] = "goi_check"
    /\ LET n == InitializationTransitionName(entity, frame[p].inferred_state)
       IN  IF IsError(frame[p].ret)
           THEN Log(p, "get_or_initialize_error") /\ Finish(p, NoState)
           ELSE IF frame[p].ret # NoState
           THEN UNCHANGED event /\ Finish(p, frame[p].ret)
           ELSE IF n = "none"
           THEN Log(p, "no_initialization_transition") /\ Finish(p, NoState)
           ELSE /\ Log(p, "cold_start_initialization")
                /\ CallNested(p, ExecuteFrame(frame[p], n,
                                              frame[p].fsm_enabled, TRUE, FALSE),
                              "ex_context")
    /\ UNCHANGED <<cascade, organizations, registries, uuids, workflow, context, registry, hooks, entity, records, cache, lock, calls>>

\* After execute_transition: return inferred_state; an exception of the
\* transition is logged and None returned.
InitializeDone(p) ==
    /\ pc[p] = "goi_done"
    /\ IF IsError(frame[p].ret)
       THEN Log(p, "get_or_initialize_error") /\ Finish(p, NoState)
       ELSE UNCHANGED event /\ Finish(p, frame[p].inferred_state)
    /\ UNCHANGED <<cascade, organizations, registries, uuids, workflow, context, registry, hooks, entity, records, cache, lock, calls>>

\* ----------------------------------------- core.current_request.CurrentContext
\* CurrentContext.get(key, default) for a boolean key of the thread.
ContextGet(ctx, key, default) ==
    IF ctx[key] = "absent" THEN default ELSE ctx[key] = "True"

\* CurrentContext.is_fsm_disabled()
is_fsm_disabled(ctx) == ContextGet(ctx, "fsm_disabled", FALSE)

\* is_fsm_enabled that looks at the cached feature flag only.
is_fsm_enabledCachedOnly(ctx) == ContextGet(ctx, "fsm_enabled_cached", FALSE)

\* CurrentContext.is_fsm_enabled(): the manual override first, then the
\* cached feature flag.
is_fsm_enabled(ctx) ==
    IF is_fsm_disabled(ctx) THEN FALSE
    ELSE ContextGet(ctx, "fsm_enabled_cached", FALSE)

\* A caller changes its thread-local data between its calls.
ContextSet(p, key, value) ==
    /\ pc[p] \in {"idle", "done"}
    /\ context' = [context EXCEPT ![p][key] = value]
    /\ UNCHANGED <<cascade, organizations, registries, uuids, workflow, registry, hooks, entity, records, cache, lock,
                   calls, pc,
                   frame, result, event>>

\* CurrentContext.set_user(user): _cache_fsm_enabled_state caches what
\* flag_set gives for the user (False without a user or on an exception).
SetUser(p) ==
    \E flag \in {"True", "False"} : ContextSet(p, "fsm_enabled_cached", flag)

\* CurrentContext.set_fsm_disabled(disabled)
SetFsmDisabled(p) ==
    \E disabled \in {"True", "False"} : ContextSet(p, "fsm_disabled", disabled)

\* utils.is_fsm_enabled() called on its own.
CallIsFsmEnabled(p) ==
    /\ UNCHANGED context
    /\ ReadOnlyCall(p, IF is_fsm_enabled(context[p]) THEN "True" ELSE "False")

\* entity.save(...) on the thread of p: skip_fsm is given or defaults to
\* CurrentContext.is_fsm_disabled(), and _should_execute_fsm() is
\* CurrentContext.is_fsm_enabled().
CallSaveInContext(p) ==
    SaveCall(p, BOOLEAN \cup {is_fsm_disabled(context[p])},
             {is_fsm_enabled(context[p])})

\* ------------------------------------------------------- the cache backend
\* The lock key's 5 second timeout runs out.
LockExpire ==
    /\ lock # NoProc
    /\ lock' = NoProc
    /\ UNCHANGED <<cascade, organizations, registries, uuids, workflow, context, registry, hooks, entity, records, cache, calls, pc, frame,
                   result, event>>

\* The cache entry's CACHE_TTL runs out.
CacheExpire ==
    /\ cache # NoState
    /\ cache' = NoState
    /\ UNCHANGED <<cascade, organizations, registries, uuids, workflow, context, registry, hooks, entity, records, lock, calls, pc, frame,
                   result, event>>

\* ------------------------------------------------------- specifications
StateManagerStep(p) ==
    \/ CallGetCurrentStateValue(p)
    \/ ReadDisabled(p)
    \/ CacheGet(p)
    \/ DbRead(p)
    \/ DbReadFails(p)
    \/ CacheFill(p)
    \/ CallTransitionState(p)
    \/ TransitionDisabled(p)
    \/ SameStateCheck(p)
    \/ LockAcquire(p)
    \/ LockBusy(p)
    \/ InsertRecord(p)
    \/ DenormFails(p)
    \/ InsertFails(p)
    \/ CacheWriteThrough(p)
    \/ CacheWriteFails(p)
    \/ ReleaseLock(p)
    \/ HandlerDeleteLock(p)
    \/ HandlerInvalidateAndRaise(p)
    \/ InvalidateCache(p)

ExecutorStep(p) ==
    \/ CallExecuteTransition(p)
    \/ BuildContextAndPrepare(p)
    \/ FetchRecord(p)
    \/ Finalize(p)

Next ==
    \/ \E p \in Procs : StateManagerStep(p)
    \/ \E p \in Procs : ExecutorStep(p)
    \/ LockExpire
    \/ CacheExpire

Spec == Init /\ [][Next]_vars

\* The steps inside get_current_state_value and transition_state, whoever
\* made the call.
StateManagerInner(p) ==
    \/ CacheGet(p)
    \/ DbRead(p)
    \/ DbReadFails(p)
    \/ CacheFill(p)
    \/ TransitionDisabled(p)
    \/ SameStateCheck(p)
    \/ LockAcquire(p)
    \/ LockBusy(p)
    \/ InsertRecord(p)
    \/ DenormFails(p)
    \/ InsertFails(p)
    \/ CacheWriteThrough(p)
    \/ CacheWriteFails(p)
    \/ ReleaseLock(p)
    \/ HandlerDeleteLock(p)
    \/ HandlerInvalidateAndRaise(p)

\* Every caller calls execute_transition once, with any transition name, data
\* and skip_validation, against a registry that also holds the test
\* transitions.
InitExec ==
    /\ entity \in Entities
    /\ registry = TransitionRegistry(entity) \o TestTransitions(entity)
    /\ Start

\* A caller that has not called yet calls execute_transition.
FirstExecuteTransition(p) == pc[p] = "idle" /\ CallExecuteTransitionAny(p)

ExecStep(p) ==
    \/ FirstExecuteTransition(p)
    \/ BuildContextAndPrepare(p)
    \/ SideEffectOnly(p)
    \/ FetchRecord(p)
    \/ Finalize(p)
    \/ StateManagerInner(p)

NextExec ==
    \/ \E p \in Procs : ExecStep(p)
    \/ LockExpire
    \/ CacheExpire

SpecExec == InitExec /\ [][NextExec]_vars

\* The first operation on the entity is a save, against the registry that
\* also holds the test transitions; its transitions run through the executor
\* and the state manager, while the other caller makes one transition_state
\* call of its own.
SaveStep(p) ==
    \/ calls = 0 /\ CallSave(p)
    \/ calls > 0 /\ pc[p] = "idle" /\ CallTransitionState(p)
    \/ EntityWrite(p)
    \/ EntityWriteFails(p)
    \/ DetermineTransitions(p)
    \/ DiscoveryFails(p)
    \/ ExecuteNext(p)
    \/ AfterTransition(p)
    \/ BuildContextAndPrepare(p)
    \/ SideEffectOnly(p)
    \/ FetchRecord(p)
    \/ Finalize(p)
    \/ StateManagerInner(p)

NextSave == \E p \in Procs : SaveStep(p)

SpecSave == InitExec /\ [][NextSave]_vars

\* Every operation of the engine on the deployed registry: the entity has
\* the state records earlier transitions left (none, one or two), its cache
\* key is warm or not, and each of two callers makes one call.
StoredHistories(e) ==
    {<<>>}
    \cup {CreateRecord(<<>>, s, NoState, p) :
             s \in StateChoices(e), p \in Procs}
    \cup {CreateRecord(CreateRecord(<<>>, s, NoState, p), t, s, p) :
             s \in StateChoices(e), t \in StateChoices(e), p \in Procs}

InitOps ==
    /\ entity \in Entities
    /\ registry = TransitionRegistry(entity)
    /\ records \in StoredHistories(entity)
    /\ cache \in {NoState, LatestState(records)}
    /\ context = [p \in Procs |-> NoContext]
    /\ registries = NoRegistries
    /\ organizations = NoOrganizations
    /\ cascade = NoCascade
    /\ uuids = NoUuids
    /\ workflow = NoWorkflow
    /\ hooks = [p \in Procs |-> <<>>]
    /\ lock = NoProc
    /\ calls = 0
    /\ pc = [p \in Procs |-> "idle"]
    /\ frame = [p \in Procs |-> NoFrame]
    /\ result = [p \in Procs |-> "none"]
    /\ event = [p \in Procs |-> "none"]

FirstCall(p) ==
    \/ CallGetCurrentStateValue(p)
    \/ CallTransitionState(p)
    \/ InvalidateCache(p)
    \/ CallExecuteTransition(p)
    \/ CallGetStateHistory(p)
    \/ CallGetStatesInTimeRange(p)
    \/ CallWarmCache(p)
    \/ CallGetOrInitializeState(p)
    \/ CallSave(p)

OperationStep(p) ==
    \/ pc[p] = "idle" /\ FirstCall(p)
    \/ ReadDisabled(p)
    \/ StateManagerInner(p)
    \/ BuildContextAndPrepare(p)
    \/ FetchRecord(p)
    \/ Finalize(p)
    \/ WarmCacheSet(p)
    \/ InitializeDisabled(p)
    \/ InitializeCheck(p)
    \/ InitializeDone(p)
    \/ EntityWrite(p)
    \/ EntityWriteFails(p)
    \/ DetermineTransitions(p)
    \/ DiscoveryFails(p)
    \/ ExecuteNext(p)
    \/ AfterTransition(p)

NextOps ==
    \/ \E p \in Procs : OperationStep(p)
    \/ LockExpire
    \/ CacheExpire

SpecOps == InitOps /\ [][NextOps]_vars

\* The steps of get_current_state_value past the feature flag.
ReadPath(p) ==
    \/ CacheGet(p)
    \/ DbRead(p)
    \/ DbReadFails(p)
    \/ CacheFill(p)

\* The steps of transition_state past the feature flag and the read of the
\* current state, for a caller that finds the lock key absent.
WritePath(p) ==
    \/ SameStateCheck(p)
    \/ LockAcquire(p)
    \/ InsertRecord(p)
    \/ DenormFails(p)
    \/ InsertFails(p)
    \/ CacheWriteThrough(p)
    \/ CacheWriteFails(p)
    \/ ReleaseLock(p)
    \/ HandlerDeleteLock(p)
    \/ HandlerInvalidateAndRaise(p)

\* Saves on the threads of two callers that set their user and switch FSM
\* processing off and on between their calls, on the deployed registry; the
\* callers make MaxSaves calls between them.
ContextStep(p) ==
    \/ SetUser(p)
    \/ SetFsmDisabled(p)
    \/ calls < MaxSaves /\ CallIsFsmEnabled(p)
    \/ calls < MaxSaves /\ CallSaveInContext(p)
    \/ EntityWrite(p)
    \/ EntityWriteFails(p)
    \/ DetermineTransitions(p)
    \/ DiscoveryFails(p)
    \/ ExecuteNext(p)
    \/ AfterTransition(p)
    \/ BuildContextAndPrepare(p)
    \/ FetchRecord(p)
    \/ Finalize(p)
    \/ ReadPath(p)
    \/ WritePath(p)
    \/ LockBusy(p)

NextContext == \E p \in Procs : ContextStep(p)

SpecContext == Init /\ [][NextContext]_vars

\* Cold start: the entity has no state record and the callers read its
\* state or get_or_initialize it. A caller is inside the executor and the
\* state manager during its call.
ColdStartInner(p) ==
    \/ InitializeDisabled(p)
    \/ InitializeCheck(p)
    \/ InitializeDone(p)
    \/ BuildContextAndPrepare(p)
    \/ FetchRecord(p)
    \/ Finalize(p)
    \/ ReadPath(p)
    \/ WritePath(p)

\* No caller is inside a call.
Quiet == \A q \in Procs : pc[q] \in {"idle", "done"}

\* The calls are made one after another, MaxCalls of them.
NextSequential ==
    \/ \E p \in Procs :
          \/ Quiet /\ CallGetCurrentStateValue(p)
          \/ Quiet /\ CallGetOrInitializeState(p)
          \/ ReadDisabled(p)
          \/ ColdStartInner(p)
    \/ LockExpire
    \/ CacheExpire

SpecSequential == Init /\ [][NextSequential]_vars

\* Each caller makes one get_or_initialize_state call, concurrently.
NextColdStart ==
    \E p \in Procs :
        \/ pc[p] = "idle" /\ CallGetOrInitializeState(p)
        \/ ColdStartInner(p)
        \/ LockBusy(p)

SpecColdStart == Init /\ [][NextColdStart]_vars

\* Trigger discovery on its own: the registry holds two transitions with any
\* trigger metadata and any should_execute, and the first operation is a call
\* of _determine_fsm_transitions with any is_creating and changed_fields.
ClassPool(name) ==
    {TransitionClass(name, NoState, FALSE, c, u, tf, {se}, {}) :
        c \in BOOLEAN, u \in BOOLEAN, tf \in SUBSET Fields,
        se \in {"True", "False", "raises"}}

InitDiscover ==
    /\ entity \in Entities
    /\ registry \in {<<a, b>> : a \in ClassPool("first"),
                                 b \in ClassPool("second")}
    /\ Start

NextDiscover ==
    \E p \in Procs :
        \/ calls = 0 /\ CallDetermineTransitions(p)
        \/ DetermineTransitions(p)
        \/ DiscoveryFails(p)

SpecDiscover == InitDiscover /\ [][NextDiscover]_vars

\* The same callers while no cache key times out (every call is over well
\* within the 5 seconds of the lock and the CACHE_TTL of the cache entry).
NextNoTTL ==
    \/ \E p \in Procs : StateManagerStep(p)
    \/ \E p \in Procs : ExecutorStep(p)

SpecNoTTL == Init /\ [][NextNoTTL]_vars

\* The race: every caller calls transition_state once on the same task that
\* has no record yet, each with a target state of its own.
RaceTarget == [p \in Procs |-> IF p = "p1" THEN "CREATED" ELSE "COMPLETED"]

InitRace == Init /\ entity = "task"

RaceCall(p) ==
    /\ pc[p] = "idle"
    /\ \E f \in BOOLEAN :
          StartCall(p, "transition_state", TRUE, RaceTarget[p], f, "gcs_get")
    /\ UNCHANGED <<cascade, organizations, registries, uuids, workflow, context, registry, entity, records, cache, lock>>

RaceStep(p) ==
    \/ RaceCall(p)
    \/ CacheGet(p)
    \/ DbRead(p)
    \/ DbReadFails(p)
    \/ CacheFill(p)
    \/ SameStateCheck(p)
    \/ LockAcquire(p)
    \/ LockBusy(p)
    \/ InsertRecord(p)
    \/ DenormFails(p)
    \/ InsertFails(p)
    \/ CacheWriteThrough(p)
    \/ CacheWriteFails(p)
    \/ ReleaseLock(p)
    \/ HandlerDeleteLock(p)
    \/ HandlerInvalidateAndRaise(p)

NextRace ==
    \/ \E p \in Procs : RaceStep(p)
    \/ LockExpire
    \/ CacheExpire

SpecRace == InitRace /\ [][NextRace]_vars

TypeOK ==
    /\ entity \in Entities
    /\ cache \in StateChoices(entity) \cup {NoState}
    /\ lock \in Procs \cup {NoProc}
    /\ calls \in 0..MaxCalls
    /\ \A i \in 1..Len(records) :
          /\ records[i].state \in StateChoices(entity)
          /\ records[i].previous_state \in StateChoices(entity) \cup {NoState}

\* ------------------------------------------------- utils: UUID7 utilities
\* A datetime is its whole number of milliseconds since the epoch (the ids
\* carry millisecond precision); the offsets and the clock are in the same
\* unit.
Datetimes == {0 - 1, 0, 1000, 1001, 1002}
Offsets == {0, 1}

\* The datetimes dt, among those within 1023 ms of the epoch, for which the
\* double dt.timestamp() * 1000 lies just below the whole number of
\* milliseconds (1.001 * 1000 = 1000.9999999999999, and so on for every odd
\* millisecond of 1001..1023).
DoubleBelow == {ms \in 1001..1023 : ms % 2 = 1}

\* int(dt.timestamp() * 1000): the double product truncated toward zero.
TimestampMs(dt) ==
    IF dt \in DoubleBelow THEN dt - 1
    ELSE IF (0 - dt) \in DoubleBelow THEN dt + 1
    ELSE dt

\* The values of the rand_a field (12 bits) and of the rand_b field (62 bits
\* in the code, 2 bits here).
RandA == 0..4095
RandB == 0..3

\* (timestamp_ms << 80) | (0x7 << 76) | (rand_a << 64) | (0b10 << 62) | rand_b
\* with the fields below rand_a 4 bits wide in all (2 variant bits, 2 bits of
\* rand_b).
Uuid7Int(timestamp_ms, rand_a, rand_b) ==
    timestamp_ms * 1048576 + 7 * 65536 + rand_a * 16 + 2 * 4 + rand_b

\* uuid.UUID(int=...) raises ValueError for an integer that is negative (a
\* negative timestamp_ms makes the whole integer negative).
UuidConstructs(timestamp_ms) == timestamp_ms >= 0

\* (uuid7_id.int >> 80) & ((1 << 48) - 1)
EmbeddedMs(id) == id \div 1048576

\* uuid_value.version
VersionOf(id) == (id \div 65536) % 16

\* the rand_a field of an id
RandAOf(id) == (id \div 16) % 4096

validate_uuid7(id) == VersionOf(id) = 7

\* datetime.fromtimestamp(timestamp_ms / 1000, tz=utc): the datetime of that
\* millisecond.
timestamp_from_uuid7(id) == EmbeddedMs(id)

uuid7_from_timestamp(timestamp) == Uuid7Int(TimestampMs(timestamp), 0, 0)

\* end_uuid: rand_b is all ones, rand_a is zero.
EndUuid(end_time) == Uuid7Int(TimestampMs(end_time) + 1, 0, 3)

\* start_uuid: one millisecond before start_time, every random bit zero.
StartUuid(start_time) == Uuid7Int(TimestampMs(start_time) - 1, 0, 0)

\* Version-7 ids of every millisecond around the datetimes of the model, with
\* the least, a small and the greatest value of rand_a.
Version7Ids ==
    {Uuid7Int(t, rand_a, rand_b) :
        t \in (0..3) \cup (998..1004), rand_a \in {0, 1, 4095}, rand_b \in RandB}

\* The variables the UUID7 utilities do not touch.
NotUuids ==
    <<context, registry, hooks, entity, records, cache, lock, calls, pc, frame,
      result, event, workflow, registries, organizations,
      cascade>>

\* UUID7Generator(base_timestamp)
NewGenerator(base_timestamp) ==
    /\ uuids' = [uuids EXCEPT
                    !.generator = [base_timestamp |-> base_timestamp,
                                   _counter |-> 0],
                    !.offsets = <<>>, !.produced = <<>>, !.raised = "none"]
    /\ UNCHANGED NotUuids

\* The last element of a sequence and the new one.
LastTwo(seq, x) == IF seq = <<>> THEN <<x>> ELSE <<seq[Len(seq)], x>>

\* The counter field of generate's ids takes the low 12 bits of _counter.
GenerateCounter(counter) == counter % 4096

\* UUID7Generator.generate(offset_ms), at most limit times for a generator.
Generate(offset_ms, limit) ==
    LET g == uuids.generator
        timestamp_ms == TimestampMs(g.base_timestamp) + offset_ms
        counter == g._counter + 1
        id == Uuid7Int(timestamp_ms, GenerateCounter(counter), 0)
    IN /\ g._counter < limit
       /\ uuids' =
            IF UuidConstructs(timestamp_ms)
            THEN [uuids EXCEPT !.generator._counter = counter,
                               !.offsets = LastTwo(uuids.offsets, offset_ms),
                               !.produced = LastTwo(uuids.produced, id),
                               !.id = <<id>>, !.timestamp = <<>>,
                               !.rebuilt = <<>>, !.raised = "none"]
            ELSE [uuids EXCEPT !.generator._counter = counter,
                               !.raised = "ValueError"]
       /\ UNCHANGED NotUuids

\* generate_uuid7(): uuid_utils.uuid7() embeds the clock's millisecond and
\* fills rand_a and rand_b with random bits.
generate_uuid7 ==
    \E now \in {dt \in Datetimes : dt >= 0}, rand_a \in {0, 1, 4095},
       rand_b \in {0, 3} :
        /\ uuids' = [uuids EXCEPT !.id = <<Uuid7Int(now, rand_a, rand_b)>>,
                                  !.timestamp = <<>>, !.rebuilt = <<>>,
                                  !.raised = "none"]
        /\ UNCHANGED NotUuids

\* id = uuid7_from_timestamp(timestamp) for a datetime of the caller
CallUuid7FromTimestamp(timestamp) ==
    /\ uuids' =
         IF UuidConstructs(TimestampMs(timestamp))
         THEN [uuids EXCEPT !.id = <<uuid7_from_timestamp(timestamp)>>,
                            !.timestamp = <<>>, !.rebuilt = <<>>,
                            !.raised = "none"]
         ELSE [uuids EXCEPT !.raised = "ValueError"]
    /\ UNCHANGED NotUuids

\* timestamp = timestamp_from_uuid7(id) for the id last produced
CallTimestampFromUuid7 ==
    /\ uuids.id # <<>>
    /\ uuids.timestamp = <<>>
    /\ uuids' = [uuids EXCEPT !.timestamp = <<timestamp_from_uuid7(uuids.id[1])>>,
                              !.raised = "none"]
    /\ UNCHANGED NotUuids

\* rebuilt = uuid7_from_timestamp(timestamp) for the timestamp extracted
RebuildUuid7 ==
    /\ uuids.timestamp # <<>>
    /\ uuids.rebuilt = <<>>
    /\ uuids' = [uuids EXCEPT
                    !.rebuilt = <<uuid7_from_timestamp(uuids.timestamp[1])>>,
                    !.raised = "none"]
    /\ UNCHANGED NotUuids

\* uuid7_time_range(start_time, end_time) of a caller with
\* start_time <= end_time
CallUuid7TimeRange(start_time, end_time) ==
    /\ start_time <= end_time
    /\ uuids' =
         IF /\ UuidConstructs(TimestampMs(start_time) - 1)
            /\ UuidConstructs(TimestampMs(end_time) + 1)
         THEN [uuids EXCEPT
                 !.bounds = <<[start_time |-> start_time,
                               end_time |-> end_time,
                               returned |-> TRUE,
                               start_uuid |-> StartUuid(start_time),
                               end_uuid |-> EndUuid(end_time)]>>,
                 !.raised = "none"]
         ELSE [uuids EXCEPT
                 !.bounds = <<[start_time |-> start_time,
                               end_time |-> end_time,
                               returned |-> FALSE,
                               start_uuid |-> 0, end_uuid |-> 0]>>,
                 !.raised = "ValueError"]
    /\ UNCHANGED NotUuids

\* Nothing has been called yet and the registry is the engine's own: one
\* UUID7Generator built at the epoch, no project.
InitGenerator ==
    /\ entity = "task"
    /\ registry = TransitionRegistry(entity)
    /\ Start

NextGenerator ==
    \/ uuids.generator._counter = 0 /\ uuids.produced = <<>>
       /\ \E base \in {dt \in Datetimes : dt > 0} : NewGenerator(base)
    \/ \E offset_ms \in Offsets : Generate(offset_ms, MaxGenerate)

SpecGenerator == InitGenerator /\ [][NextGenerator]_vars

\* The utilities called in any order on ids of any origin.
NextUuid ==
    \/ \E base \in Datetimes : NewGenerator(base)
    \/ \E offset_ms \in Offsets : Generate(offset_ms, MaxIds)
    \/ generate_uuid7
    \/ \E timestamp \in Datetimes : CallUuid7FromTimestamp(timestamp)
    \/ CallTimestampFromUuid7
    \/ RebuildUuid7
    \/ \E start_time \in Datetimes, end_time \in Datetimes :
          CallUuid7TimeRange(start_time, end_time)

SpecUuid == InitGenerator /\ [][NextUuid]_vars

\* ------------------------------------- task, annotation, project workflow
\* get_current_state_value of an entity with these StateRecords
StateOf(history) ==
    IF history = <<>> THEN NoState ELSE history[Len(history)].state

\* transition_state as it would be if it did not record the state it found.
TransitionedForgetsPrevious(history, new_state) ==
    IF StateOf(history) = new_state
    THEN history
    ELSE Append(history, [state |-> new_state, previous_state |-> NoState])
\* StateManager.transition_state(entity, new_state) of a caller that is alone
\* and does not force a record: nothing when the entity is in new_state
\* already, one more record otherwise.
Transitioned(history, new_state) ==
    IF StateOf(history) = new_state
    THEN history
    ELSE Append(history, [state |-> new_state,
                          previous_state |-> StateOf(history)])

\* get_target_state of the transitions registered for tasks and projects
TargetOf(transition_name) ==
    CASE transition_name = "task_created" -> "CREATED"
      [] transition_name = "task_completed" -> "COMPLETED"
      [] transition_name = "task_in_progress" -> "IN_PROGRESS"
      [] transition_name = "project_created" -> "CREATED"
      [] transition_name = "project_in_progress" -> "IN_PROGRESS"
      [] transition_name = "project_completed" -> "COMPLETED"
      [] transition_name = "project_in_progress_from_completed" -> "IN_PROGRESS"

\* ModelChangeTransition.validate_transition of a transition executed by
\* name (is_creating is False): ProjectCreatedTransition.should_execute
\* returns self.is_creating, the others keep the default True.
Validates(transition_name) == transition_name # "project_created"

\* The StateRecords after StateManager.execute_transition(entity,
\* transition_name) went through.
Executed(history, transition_name) ==
    Transitioned(history, TargetOf(transition_name))

\* The StateRecords after get_or_initialize_state(entity, inferred_state):
\* an entity with a state is left alone, a validation error is logged and
\* swallowed.
Initialized(entity_type, history, inferred_state) ==
    LET transition_name ==
            InitializationTransitionName(entity_type, inferred_state)
    IN IF \/ StateOf(history) # NoState
          \/ transition_name = "none"
          \/ ~Validates(transition_name)
       THEN history
       ELSE Executed(history, transition_name)

ExistingTasks(w) == {t \in Tasks : w.tasks[t].exists}
LabeledTasks(w) == {t \in ExistingTasks(w) : w.tasks[t].is_labeled}

\* infer_entity_state_from_data(project)
InferProjectState(w) ==
    IF ExistingTasks(w) = {} THEN "CREATED"
    ELSE IF LabeledTasks(w) = {} THEN "CREATED"
    ELSE IF LabeledTasks(w) = ExistingTasks(w) THEN "COMPLETED"
    ELSE "IN_PROGRESS"

\* The transition update_project_state_after_task_change executes for a
\* project that has a state.
ProjectTransition(current_state, inferred_state) ==
    IF current_state = inferred_state THEN "none"
    ELSE IF inferred_state = "IN_PROGRESS"
    THEN IF current_state = "CREATED" THEN "project_in_progress"
         ELSE IF current_state = "COMPLETED"
         THEN "project_in_progress_from_completed"
         ELSE "none"
    ELSE IF inferred_state = "COMPLETED" THEN "project_completed"
    ELSE "none"

\* The project's StateRecords after
\* update_project_state_after_task_change(project).
update_project_state_after_task_change(w) ==
    LET current_state == StateOf(w.project)
        inferred_state == InferProjectState(w)
        transition_name == ProjectTransition(current_state, inferred_state)
    IN IF current_state = NoState
       THEN Initialized("project", w.project, inferred_state)
       ELSE IF transition_name = "none" THEN w.project
       ELSE Executed(w.project, transition_name)

\* AnnotationSubmittedTransition.post_transition_hook for an annotation of
\* task t.
post_transition_hook(w, t) ==
    LET history == w.tasks[t].history
        initialized == IF StateOf(history) = NoState
                       THEN Initialized("task", history, "COMPLETED")
                       ELSE history
        completed == IF StateOf(initialized) # "COMPLETED"
                     THEN Executed(initialized, "task_completed")
                     ELSE initialized
        w1 == [w EXCEPT !.tasks[t].history = completed]
    IN [w1 EXCEPT !.project = update_project_state_after_task_change(w1)]

\* The state update_task_state_after_annotation_deletion expects of a task.
ExpectedTaskState(task) ==
    IF task.is_labeled THEN "COMPLETED" ELSE "IN_PROGRESS"

\* update_task_state_after_annotation_deletion calls the state manager to
\* change the task's state.
TaskNeedsTransition(task) ==
    StateOf(task.history) # ExpectedTaskState(task)

\* update_task_state_after_annotation_deletion(task, project) inside its
\* try; fails names the call that raises: the task's execute_transition
\* ("task"), the project update after it ("project") or none.
update_task_state_after_annotation_deletion(w, t, fails) ==
    LET task == w.tasks[t]
        transition_name == IF task.is_labeled THEN "task_completed"
                           ELSE "task_in_progress"
        w1 == [w EXCEPT !.tasks[t].history = Executed(@, transition_name)]
    IN IF ~TaskNeedsTransition(task) THEN w
       ELSE IF fails = "task" THEN w
       ELSE IF fails = "project" THEN w1
       ELSE [w1 EXCEPT !.project = update_project_state_after_task_change(w1)]

\* The except clause as it would be if it raised the exception again.
SafetyNetReraises(exception) == exception
\* except Exception: the failure is logged and nothing reaches the caller.
SafetyNet(exception) == "none"

\* The request that has been handled, with the histories it found; failed
\* names the call that raised inside it.
Handle(w, after, op, t, fsm_enabled, failed) ==
    [after EXCEPT
        !.log = Append(w.log,
                  [op |-> op, task |-> t, fsm_enabled |-> fsm_enabled,
                   failed |-> failed,
                   raised |-> SafetyNet(failed),
                   task_before |-> w.tasks[t].history,
                   project_before |-> w.project,
                   others |-> ExistingTasks(w) \ {t},
                   others_labeled |-> LabeledTasks(w) \ {t}])]

\* The variables the workflow does not touch.
NotWorkflow ==
    <<context, registry, hooks, entity, records, cache, lock, calls, pc, frame,
      result, event, uuids, registries, organizations,
      cascade>>

\* Project.save() of a new project: with the feature on, project_created
\* triggers on creation.
CreateProject(fsm_enabled) ==
    /\ ~workflow.created
    /\ workflow' = [workflow EXCEPT
                      !.created = TRUE,
                      !.project = IF fsm_enabled
                                  THEN Transitioned(<<>>, "CREATED")
                                  ELSE <<>>]
    /\ UNCHANGED NotWorkflow

\* Task.save() of a new task: with the feature on, task_created triggers on
\* creation.
CreateTask(t, fsm_enabled) ==
    /\ workflow.created
    /\ Len(workflow.log) < MaxOps
    /\ ~workflow.tasks[t].exists
    /\ LET created == [workflow EXCEPT
                         !.tasks[t] =
                            [exists |-> TRUE, annotations |-> 0,
                             is_labeled |-> FALSE,
                             history |-> IF fsm_enabled
                                         THEN Executed(<<>>, "task_created")
                                         ELSE <<>>]]
       IN workflow' = Handle(workflow, created, "create", t, fsm_enabled,
                             "none")
    /\ UNCHANGED NotWorkflow

\* An annotation of task t is submitted: the annotation is saved, the task
\* becomes labeled, and with the feature on annotation_submitted runs its
\* post_transition_hook.
SubmitAnnotation(t, fsm_enabled) ==
    /\ Len(workflow.log) < MaxOps
    /\ workflow.tasks[t].exists
    /\ workflow.tasks[t].annotations < MaxAnnotations
    /\ LET saved == [workflow EXCEPT !.tasks[t].annotations = @ + 1,
                                     !.tasks[t].is_labeled = TRUE]
           after == IF fsm_enabled THEN post_transition_hook(saved, t)
                    ELSE saved
       IN workflow' = Handle(workflow, after, "submit", t, fsm_enabled,
                             "none")
    /\ UNCHANGED NotWorkflow

\* update_task_state_after_annotation_deletion(task, project) called for
\* task t of w: nothing with the feature off; a call that raises inside the
\* try (fails) is one the function makes.
AfterDeletion(w, t, op, fsm_enabled, fails) ==
    LET needed == fsm_enabled /\ TaskNeedsTransition(w.tasks[t])
        after == IF fsm_enabled
                 THEN update_task_state_after_annotation_deletion(w, t, fails)
                 ELSE w
    IN /\ fails # "none" => needed
       /\ workflow' = Handle(workflow, after, op, t, fsm_enabled, fails)

\* An annotation of task t is deleted: the task stays labeled while it has
\* an annotation left, then update_task_state_after_annotation_deletion.
DeleteAnnotation(t, fsm_enabled, fails) ==
    /\ Len(workflow.log) < MaxOps
    /\ workflow.tasks[t].annotations > 0
    /\ AfterDeletion([workflow EXCEPT
                        !.tasks[t].annotations = @ - 1,
                        !.tasks[t].is_labeled =
                           workflow.tasks[t].annotations > 1],
                     t, "delete", fsm_enabled, fails)
    /\ UNCHANGED NotWorkflow

\* update_task_state_after_annotation_deletion(task, project) called for a
\* task as it is.
CallUpdateTaskState(t, fsm_enabled, fails) ==
    /\ Len(workflow.log) < MaxOps
    /\ workflow.tasks[t].exists
    /\ AfterDeletion(workflow, t, "update_task_state", fsm_enabled, fails)
    /\ UNCHANGED NotWorkflow

Failures == {"none", "task", "project"}

NextWorkflow ==
    \/ \E fsm_enabled \in BOOLEAN : CreateProject(fsm_enabled)
    \/ \E t \in Tasks, fsm_enabled \in BOOLEAN : CreateTask(t, fsm_enabled)
    \/ \E t \in Tasks, fsm_enabled \in BOOLEAN :
          SubmitAnnotation(t, fsm_enabled)
    \/ \E t \in Tasks, fsm_enabled \in BOOLEAN, fails \in Failures :
          DeleteAnnotation(t, fsm_enabled, fails)
    \/ \E t \in Tasks, fsm_enabled \in BOOLEAN, fails \in Failures :
          CallUpdateTaskState(t, fsm_enabled, fails)

SpecWorkflow == InitGenerator /\ [][NextWorkflow]_vars

\* --------------------------------------------------------------- registries
\* StateChoicesRegistry, StateModelRegistry and TransitionRegistry.
RegistryKinds == {"state_choices", "state_model", "transition"}

\* Entity names as callers write them, the transition names and the classes
\* they register.
EntityNames == {"task", "Task"}

TransitionNames == {"task_created", "task_completed"}

Classes == {"A", "B"}

\* entity_name.lower()
Lower(entity_name) == IF entity_name = "Task" THEN "task" ELSE entity_name

\* d[k] = v
DictSet(d, k, v) == [x \in DOMAIN d \cup {k} |-> IF x = k THEN v ELSE d[x]]

\* d.get(k): <<>> is None
DictGet(d, k) == IF k \in DOMAIN d THEN <<d[k]>> ELSE <<>>

\* d.get(k, {})
DictGetOrEmpty(d, k) == IF k \in DOMAIN d THEN d[k] ELSE EmptyDict

\* The keys of the calls: <<entity_name>>, and <<entity_name,
\* transition_name>> for the transition registry.
RegistryKeys(kind) ==
    IF kind = "transition"
    THEN {<<e, n>> : e \in EntityNames, n \in TransitionNames}
    ELSE {<<e>> : e \in EntityNames}

\* The key as the registry compares it.
StoredKey(kind, key) ==
    IF kind = "transition" THEN key ELSE <<Lower(key[1])>>

\* register(entity_name, choices_class), register_model(entity_name,
\* state_model), register(entity_name, transition_name, transition_class):
\* the registry's dict afterwards.
RegistryRegister(kind, d, key, value) ==
    IF kind = "transition"
    THEN DictSet(d, key[1],
                 DictSet(DictGetOrEmpty(d, key[1]), key[2], value))
    ELSE DictSet(d, Lower(key[1]), value)

\* get_choices(entity_name), get_model(entity_name),
\* get_transition(entity_name, transition_name)
RegistryGet(kind, d, key) ==
    IF kind = "transition"
    THEN DictGet(DictGetOrEmpty(d, key[1]), key[2])
    ELSE DictGet(d, Lower(key[1]))

\* dict.copy() gives the same object back.
DictCopySameObject(object) == object

\* dict.copy(): a new object
DictCopy(object) == <<"new">>

\* The variables the registries do not touch.
NotRegistries ==
    <<context, registry, hooks, entity, records, cache, lock, calls, pc, frame,
      result, event, uuids, workflow, organizations,
      cascade>>

\* What the last registry call was.
LastCall(op, key, returned) ==
    <<[op |-> op, key |-> key, returned |-> returned]>>

Register(key, value) ==
    /\ registries' = [registries EXCEPT
          !.dict = RegistryRegister(registries.kind, @, key, value),
          !.registered = DictSet(@, key, value),
          !.stored = DictSet(@, StoredKey(registries.kind, key), value),
          !.last = LastCall("register", key, <<>>)]
    /\ UNCHANGED NotRegistries

Get(key) ==
    /\ registries' = [registries EXCEPT
          !.last = LastCall("get", key,
                            RegistryGet(registries.kind, registries.dict,
                                        key))]
    /\ UNCHANGED NotRegistries

\* list_entities()
ListEntities ==
    /\ registries.kind # "state_model"
    /\ registries' = [registries EXCEPT
          !.last = LastCall("list_entities", <<>>, DOMAIN registries.dict)]
    /\ UNCHANGED NotRegistries

\* clear()
Clear ==
    /\ registries' = [registries EXCEPT
          !.dict = EmptyDict, !.registered = EmptyDict,
          !.stored = EmptyDict, !.last = LastCall("clear", <<>>, <<>>)]
    /\ UNCHANGED NotRegistries

\* get_all_models()
GetAllModels ==
    /\ registries.kind = "state_model"
    /\ registries' = [registries EXCEPT
          !.returned = <<[object |-> DictCopy(<<"registry">>),
                          dict |-> registries.dict]>>,
          !.last = LastCall("get_all_models", <<>>, <<>>)]
    /\ UNCHANGED NotRegistries

\* get_transitions_for_entity(entity_name)
GetTransitionsForEntity(entity_name) ==
    /\ registries.kind = "transition"
    /\ registries' = [registries EXCEPT
          !.returned =
              <<[object |-> DictCopy(IF entity_name \in DOMAIN registries.dict
                                     THEN <<"entity", entity_name>>
                                     ELSE <<"new">>),
                 dict |-> DictGetOrEmpty(registries.dict, entity_name)]>>,
          !.last = LastCall("get_transitions_for_entity", <<entity_name>>,
                            <<>>)]
    /\ UNCHANGED NotRegistries

\* The caller changes the dictionary it was given: it sets a key, or empties
\* the dictionary.
Mutate(k, v, empties) ==
    /\ registries.returned # <<>>
    /\ LET r == registries.returned[1]
           changed == IF empties THEN EmptyDict ELSE DictSet(r.dict, k, v)
       IN  /\ changed # r.dict
           /\ registries' = [registries EXCEPT
                 !.returned = <<[r EXCEPT !.dict = changed]>>,
                 !.dict = IF r.object = <<"registry">> THEN changed
                          ELSE IF r.object[1] = "entity"
                               THEN DictSet(@, r.object[2], changed)
                               ELSE @,
                 !.last = LastCall("mutate", <<k>>, <<>>)]
    /\ UNCHANGED NotRegistries

\* Any of the three registries as its constructor leaves it; the engine has
\* done nothing yet.
InitRegistries ==
    /\ entity = "task"
    /\ registry = TransitionRegistry(entity)
    /\ context = [p \in Procs |-> NoContext]
    /\ registries \in {[NoRegistries EXCEPT !.kind = kind] :
                          kind \in RegistryKinds}
    /\ organizations = NoOrganizations
    /\ cascade = NoCascade
    /\ uuids = NoUuids
    /\ workflow = NoWorkflow
    /\ hooks = [p \in Procs |-> <<>>]
    /\ records = <<>>
    /\ cache = NoState
    /\ lock = NoProc
    /\ calls = 0
    /\ pc = [p \in Procs |-> "idle"]
    /\ frame = [p \in Procs |-> NoFrame]
    /\ result = [p \in Procs |-> "none"]
    /\ event = [p \in Procs |-> "none"]

NextRegistries ==
    \/ \E key \in RegistryKeys(registries.kind), value \in Classes :
          Register(key, value)
    \/ \E key \in RegistryKeys(registries.kind) : Get(key)
    \/ ListEntities
    \/ Clear
    \/ GetAllModels
    \/ \E entity_name \in EntityNames : GetTransitionsForEntity(entity_name)
    \/ \E k \in {"task"} \cup TransitionNames, v \in Classes,
          empties \in BOOLEAN : Mutate(k, v, empties)

SpecRegistries == InitRegistries /\ [][NextRegistries]_vars

\* ------------------------------------------ the organization of a record
\* Organization ids; <<>> is None.
Orgs == {1, 2}

OrgOptions == {<<>>} \cup {<<o>> : o \in Orgs}

\* Entities with an organization_id attribute (a project) and without one
\* (a task, an annotation).
OrgEntities ==
    {[has_organization_id |-> FALSE, organization_id |-> <<>>]}
    \cup {[has_organization_id |-> TRUE, organization_id |-> o] :
             o \in OrgOptions}

\* The organization_id arguments of the calls, the organization of the
\* parent the denormalized fields lead to, and the id of the user's active
\* organization (None without a user or without an active organization).
GivenOrgs == {<<>>, <<1>>}

ParentOrgs == {<<>>, <<2>>}

UserOrgs == {<<>>, <<1>>}

\* getattr(entity, 'organization_id', default)
EntityOrganizationId(ent, default) ==
    IF ent.has_organization_id THEN ent.organization_id ELSE default

\* transition_state, from its organization_id argument to the create of the
\* record: the organization_id of the record and what CurrentContext holds
\* afterwards.
TransitionStateOrganization(organization_id, ctx, ent, parent, user) ==
    LET given == IF organization_id = <<>> THEN ctx ELSE organization_id
        own == IF given = <<>> THEN EntityOrganizationId(ent, parent)
               ELSE given
        ctx_own == IF given = <<>> /\ own # <<>> THEN own ELSE ctx
        from_user == own = <<>> /\ user # <<>>
    IN  [organization_id |-> IF from_user THEN user ELSE own,
         context |-> IF from_user THEN user ELSE ctx_own]

\* resolve_organization_id(entity, user): what it returns and what
\* CurrentContext holds afterwards.
resolve_organization_id(ctx, ent, parent, user) ==
    IF ctx # <<>> THEN [organization_id |-> ctx, context |-> ctx]
    ELSE LET own == EntityOrganizationId(ent, <<>>)
             related == IF own = <<>> THEN parent ELSE own
             found == IF related = <<>> /\ user # <<>> THEN user ELSE related
         IN  [organization_id |-> found,
              context |-> IF found # <<>> THEN found ELSE ctx]

\* The variables the organization of a record does not touch.
NotOrganizations ==
    <<context, registry, hooks, entity, records, cache, lock, calls, pc, frame,
      result, event, uuids, workflow, registries, cascade>>

\* A call has written a record: transition_state with the organization_id
\* it was given, which is None when the executor makes the call.
Writes(call, organization_id, given, ent, parent, user) ==
    LET out == TransitionStateOrganization(given, organizations.context,
                                           ent, parent, user)
    IN  /\ organizations' =
              [context |-> out.context,
               writes |-> LastTwo(organizations.writes,
                                  [call |-> call,
                                   organization_id |-> organization_id,
                                   entity |-> ent, parent |-> parent,
                                   user |-> user,
                                   written |-> out.organization_id])]
        /\ UNCHANGED NotOrganizations

\* StateManager.transition_state(entity, new_state, user=user,
\* organization_id=organization_id) writes a record.
TransitionStateWrites(organization_id, ent, parent, user) ==
    Writes("transition_state", organization_id, organization_id, ent,
           parent, user)

\* StateManager.execute_transition(entity, transition_name, user=user,
\* organization_id=organization_id) writes a record: the executor keeps
\* organization_id for the TransitionContext and calls transition_state
\* without it.
ExecuteTransitionWrites(organization_id, ent, parent, user) ==
    Writes("execute_transition", organization_id, <<>>, ent, parent, user)

\* resolve_organization_id(entity, user) called on the thread.
CallResolveOrganizationId(ent, parent, user) ==
    /\ organizations' =
          [organizations EXCEPT
              !.context = resolve_organization_id(@, ent, parent,
                                                  user).context]
    /\ UNCHANGED NotOrganizations

\* CurrentContext.set_user(user) at the start of a request.
SetUserOrganization(user) ==
    /\ organizations' =
          [organizations EXCEPT !.context = IF user # <<>> THEN user ELSE @]
    /\ UNCHANGED NotOrganizations

\* CurrentContext.clear() at the end of a request.
ClearContext ==
    /\ organizations.context # <<>>
    /\ organizations' = [organizations EXCEPT !.context = <<>>]
    /\ UNCHANGED NotOrganizations

NextOrganizations ==
    \/ \E organization_id \in GivenOrgs, ent \in OrgEntities,
          parent \in ParentOrgs, user \in UserOrgs :
          \/ TransitionStateWrites(organization_id, ent, parent, user)
          \/ ExecuteTransitionWrites(organization_id, ent, parent, user)
    \/ \E ent \in OrgEntities, parent \in ParentOrgs, user \in UserOrgs :
          CallResolveOrganizationId(ent, parent, user)
    \/ \E user \in OrgOptions : SetUserOrganization(user)
    \/ ClearContext

SpecOrganizations == InitGenerator /\ [][NextOrganizations]_vars

\* ------------------------------------------------- the annotation cascade
\* An annotation is submitted: AnnotationSubmittedTransition's post hook
\* moves the task and then the project, each through execute_transition.
NotCascade ==
    <<context, registry, hooks, entity, records, cache, lock, calls, pc, frame,
      result, event, uuids, workflow, registries, organizations>>

\* The registered transition classes of the three entities the cascade can
\* come to: the entity type and the target state of each.
CascadeTransitions ==
    [annotation_submitted |-> [entity |-> "annotation", target |-> "SUBMITTED"],
     task_completed |-> [entity |-> "task", target |-> "COMPLETED"],
     task_in_progress |-> [entity |-> "task", target |-> "IN_PROGRESS"],
     project_created |-> [entity |-> "project", target |-> "CREATED"],
     project_in_progress |-> [entity |-> "project", target |-> "IN_PROGRESS"],
     project_completed |-> [entity |-> "project", target |-> "COMPLETED"],
     project_in_progress_from_completed |->
         [entity |-> "project", target |-> "IN_PROGRESS"]]

\* The transitions a caller starts a cascade with.
CascadeStarts == {"annotation_submitted", "task_in_progress"}

\* What infer_entity_state_from_data can give for the project: it counts
\* the tasks and the labeled tasks.
InferredProjectStates == {"CREATED", "IN_PROGRESS", "COMPLETED"}

\* The transition get_or_initialize_state executes to bring an entity of
\* type entity_type that has no record to target_state.
CascadeInitializationName(entity_type, target_state) ==
    CASE entity_type = "task" /\ target_state = "COMPLETED" -> "task_completed"
      [] entity_type = "task" /\ target_state = "IN_PROGRESS" -> "task_in_progress"
      [] entity_type = "project" /\ target_state = "CREATED" -> "project_created"
      [] entity_type = "project" /\ target_state = "IN_PROGRESS"
            -> "project_in_progress"
      [] entity_type = "project" /\ target_state = "COMPLETED"
            -> "project_completed"
      [] OTHER -> "annotation_submitted"

\* A call on the stack: the function, the entity, the transition (or the
\* inferred state) it was called with, where it is, and what the call it
\* made last returned.
CascadeFrame(op, e, arg, at) ==
    [op |-> op, entity |-> e, arg |-> arg, at |-> at, ret |-> NoState]

\* The innermost call of p.
Top(p) == cascade.stack[p][Len(cascade.stack[p])]

InCascade(p, op, at) ==
    /\ cascade.stack[p] # <<>>
    /\ Top(p).op = op
    /\ Top(p).at = at

\* The entities whose lock key p has set and neither deleted nor lost.
Held(p) == {e \in CascadeEntities : cascade.lock[e] = p}

\* st with its innermost call at position at.
At(st, at) == [st EXCEPT ![Len(st)].at = at]

\* st after its innermost call has returned v to the call that made it.
Returned(st, v) ==
    LET outer == SubSeq(st, 1, Len(st) - 1)
    IN  IF outer = <<>> THEN outer
        ELSE [outer EXCEPT ![Len(outer)].ret = v]

\* st after its innermost call has raised: the exception leaves every call
\* up to the nearest get_or_initialize_state, whose except clause takes it.
RECURSIVE Raised(_)
Raised(st) ==
    IF st = <<>> THEN st
    ELSE IF st[Len(st)].op = "get_or_initialize_state" THEN At(st, "except")
    ELSE Raised(SubSeq(st, 1, Len(st) - 1))

\* p's stack becomes st; when it is empty the outermost call has ended.
CascadeGoes(p, st, how, lk, states, ran) ==
    cascade' = [state |-> states, lock |-> lk,
                stack |-> [cascade.stack EXCEPT ![p] = st],
                ran |-> [cascade.ran EXCEPT ![p] = ran],
                ended |-> [cascade.ended EXCEPT
                              ![p] = IF st = <<>> THEN how ELSE @]]

\* p goes on without touching a record or a lock key.
CascadeStep(p, st, how) ==
    CascadeGoes(p, st, how, cascade.lock, cascade.state, cascade.ran[p])

\* p enters the hook ph of the transition of its innermost call.
Ran(p, ph) ==
    <<[hook |-> ph, transition_name |-> Top(p).arg, held |-> Held(p),
       depth |-> Len(cascade.stack[p])]>>

\* StateManager.execute_transition(entity, transition_name) by a caller
\* that is in no call.
CallCascade(p) ==
    /\ cascade.stack[p] = <<>>
    /\ cascade.ended[p] = "none"
    /\ \E n \in CascadeStarts :
          CascadeStep(p, <<CascadeFrame("execute_transition",
                                        CascadeTransitions[n].entity, n,
                                        "prepare")>>, "none")
    /\ UNCHANGED NotCascade

\* transition.prepare_and_validate(context): validate_transition, the pre
\* hook and transition(), any of which can refuse or raise.
CascadePrepare(p) ==
    /\ InCascade(p, "execute_transition", "prepare")
    /\ \E ok \in BOOLEAN :
          CascadeGoes(p, IF ok THEN At(cascade.stack[p], "transition_state")
                         ELSE Raised(cascade.stack[p]),
                      "raised", cascade.lock, cascade.state,
                      Ran(p, "prepare_and_validate"))
    /\ UNCHANGED NotCascade

\* transition_state up to the insert: nothing to do when the entity is in
\* the target state already; cache.add of the lock key, and when the key
\* is there the call returns True without writing and the executor goes on
\* to finalize; the insert of the record, and when it raises the handler
\* deletes the lock key and raises.
CascadeTransitionState(p) ==
    /\ cascade.stack[p] # <<>>
    /\ Top(p).op = "execute_transition"
    /\ LET e == Top(p).entity
           target == CascadeTransitions[Top(p).arg].target
       IN  \/ /\ Top(p).at = "transition_state"
              /\ CascadeStep(p, At(cascade.stack[p],
                                   IF cascade.state[e] = target
                                   THEN "finalize" ELSE "acquire"), "none")
           \/ /\ Top(p).at = "acquire"
              /\ cascade.lock[e] = NoProc
              /\ CascadeGoes(p, At(cascade.stack[p], "insert"), "none",
                             [cascade.lock EXCEPT ![e] = p], cascade.state,
                             cascade.ran[p])
           \/ /\ Top(p).at = "acquire"
              /\ cascade.lock[e] # NoProc
              /\ CascadeStep(p, At(cascade.stack[p], "finalize"), "none")
           \/ /\ Top(p).at = "insert"
              /\ CascadeGoes(p, At(cascade.stack[p], "release"), "none",
                             cascade.lock,
                             [cascade.state EXCEPT ![e] = target],
                             cascade.ran[p])
           \/ /\ Top(p).at = "insert"
              /\ CascadeGoes(p, Raised(cascade.stack[p]), "raised",
                             [cascade.lock EXCEPT ![e] = NoProc],
                             cascade.state, cascade.ran[p])
    /\ UNCHANGED NotCascade

\* transition_state that leaves the lock key in place when it returns.
CascadeReleaseKeepsKey(p) ==
    /\ InCascade(p, "execute_transition", "release")
    /\ CascadeStep(p, At(cascade.stack[p], "finalize"), "none")
    /\ UNCHANGED NotCascade

\* finally: if lock_acquired: cache.delete(lock_key); return True
CascadeRelease(p) ==
    /\ InCascade(p, "execute_transition", "release")
    /\ CascadeGoes(p, At(cascade.stack[p], "finalize"), "none",
                   [cascade.lock EXCEPT ![Top(p).entity] = NoProc],
                   cascade.state, cascade.ran[p])
    /\ UNCHANGED NotCascade

\* transition.finalize(context, state_record): the post hook, which is the
\* cascade for annotation_submitted and pass for the other classes.
CascadeFinalize(p) ==
    /\ InCascade(p, "execute_transition", "finalize")
    /\ CascadeGoes(p,
          IF Top(p).arg = "annotation_submitted"
          THEN At(cascade.stack[p], "return")
               \o <<CascadeFrame("post_transition_hook", "annotation",
                                 "annotation_submitted", "task_state")>>
          ELSE Returned(cascade.stack[p], "StateRecord"),
          "returned", cascade.lock, cascade.state,
          Ran(p, "post_transition_hook"))
    /\ UNCHANGED NotCascade

\* AnnotationSubmittedTransition.post_transition_hook: the state of the
\* task, get_or_initialize_state(task, COMPLETED) when it has none,
\* task_completed when what came of it is not COMPLETED, then
\* update_project_state_after_task_change(project).
AnnotationPostHook(p) ==
    /\ cascade.stack[p] # <<>>
    /\ Top(p).op = "post_transition_hook"
    /\ LET st == cascade.stack[p]
       IN  \/ /\ Top(p).at = "task_state"
              /\ CascadeStep(p,
                    IF cascade.state["task"] = NoState
                    THEN At(st, "task_check")
                         \o <<CascadeFrame("get_or_initialize_state", "task",
                                           "COMPLETED", "read")>>
                    ELSE [At(st, "task_check") EXCEPT
                             ![Len(st)].ret = cascade.state["task"]],
                    "none")
           \/ /\ Top(p).at = "task_check"
              /\ CascadeStep(p,
                    IF Top(p).ret # "COMPLETED"
                    THEN At(st, "project")
                         \o <<CascadeFrame("execute_transition", "task",
                                           "task_completed", "prepare")>>
                    ELSE At(st, "project"), "none")
           \/ /\ Top(p).at = "project"
              /\ CascadeStep(p,
                    At(st, "return")
                    \o <<CascadeFrame("update_project_state_after_task_change",
                                      "project", "none", "read")>>, "none")
    /\ UNCHANGED NotCascade

\* update_project_state_after_task_change: get_or_initialize_state when
\* the project has no state, else the transition from its state to the
\* inferred one when they differ.
UpdateProjectState(p) ==
    /\ InCascade(p, "update_project_state_after_task_change", "read")
    /\ \E inferred_state \in InferredProjectStates :
          LET st == At(cascade.stack[p], "return")
              current_state == cascade.state["project"]
              Execute(n) == st \o <<CascadeFrame("execute_transition",
                                                 "project", n, "prepare")>>
          IN  CascadeStep(p,
                 CASE current_state = NoState ->
                         st \o <<CascadeFrame("get_or_initialize_state",
                                              "project", inferred_state,
                                              "read")>>
                   [] current_state = inferred_state -> st
                   [] inferred_state = "IN_PROGRESS"
                      /\ current_state = "CREATED" ->
                         Execute("project_in_progress")
                   [] inferred_state = "IN_PROGRESS"
                      /\ current_state = "COMPLETED" ->
                         Execute("project_in_progress_from_completed")
                   [] inferred_state = "COMPLETED" ->
                         Execute("project_completed")
                   [] OTHER -> st,
                 "none")
    /\ UNCHANGED NotCascade

\* get_or_initialize_state: the state the entity has, else the
\* initialization transition and the inferred state; None when anything
\* raised.
CascadeGetOrInitialize(p) ==
    /\ cascade.stack[p] # <<>>
    /\ Top(p).op = "get_or_initialize_state"
    /\ LET st == cascade.stack[p]
           e == Top(p).entity
       IN  \/ /\ Top(p).at = "read"
              /\ CascadeStep(p,
                    IF cascade.state[e] # NoState
                    THEN Returned(st, cascade.state[e])
                    ELSE At(st, "executed")
                         \o <<CascadeFrame("execute_transition", e,
                                 CascadeInitializationName(e, Top(p).arg),
                                 "prepare")>>,
                    "returned")
           \/ /\ Top(p).at = "executed"
              /\ CascadeStep(p, Returned(st, Top(p).arg), "returned")
           \/ /\ Top(p).at = "except"
              /\ CascadeStep(p, Returned(st, NoState), "returned")
    /\ UNCHANGED NotCascade

\* A call that has nothing left to do returns.
CascadeReturn(p) ==
    /\ cascade.stack[p] # <<>>
    /\ Top(p).at = "return"
    /\ CascadeStep(p, Returned(cascade.stack[p],
                               IF Top(p).op = "execute_transition"
                               THEN "StateRecord" ELSE NoState), "returned")
    /\ UNCHANGED NotCascade

\* The cache backend drops a lock key 5 seconds after cache.add set it.
CascadeLockExpire ==
    /\ \E e \in CascadeEntities :
          /\ cascade.lock[e] # NoProc
          /\ cascade' = [cascade EXCEPT !.lock[e] = NoProc]
    /\ UNCHANGED NotCascade

\* The steps of a caller that is inside a call.
CascadeRun(p) ==
    \/ CascadePrepare(p)
    \/ CascadeTransitionState(p)
    \/ CascadeRelease(p)
    \/ CascadeFinalize(p)
    \/ AnnotationPostHook(p)
    \/ UpdateProjectState(p)
    \/ CascadeGetOrInitialize(p)
    \/ CascadeReturn(p)

\* The task and the project have a state or, on a cold start, none.
InitCascade ==
    /\ entity = "annotation"
    /\ registry = TransitionRegistry("task")
    /\ context = [p \in Procs |-> NoContext]
    /\ registries = NoRegistries
    /\ organizations = NoOrganizations
    /\ cascade \in {[NoCascade EXCEPT !.state["task"] = t,
                                     !.state["project"] = j] :
                       t \in {NoState, "CREATED", "COMPLETED"},
                       j \in {NoState, "CREATED", "COMPLETED"}}
    /\ uuids = NoUuids
    /\ workflow = NoWorkflow
    /\ hooks = [p \in Procs |-> <<>>]
    /\ records = <<>>
    /\ cache = NoState
    /\ lock = NoProc
    /\ calls = 0
    /\ pc = [p \in Procs |-> "idle"]
    /\ frame = [p \in Procs |-> NoFrame]
    /\ result = [p \in Procs |-> "none"]
    /\ event = [p \in Procs |-> "none"]

NextCascade ==
    \/ \E p \in Procs : CallCascade(p)
    \/ \E p \in Procs : CascadeRun(p)
    \/ CascadeLockExpire

\* A thread that is inside a call goes on running.
SpecCascade ==
    /\ InitCascade
    /\ [][NextCascade]_vars
    /\ \A p \in Procs : WF_vars(CascadeRun(p))

\* ------------------------------------------------------------------ claims
\* Positions inside transition_state (its current-state read included).
TransitionStatePcs ==
    {"gcs_get", "gcs_db", "gcs_set", "ts_off", "ts_check", "ts_lock",
     "ts_insert", "ts_cache_set", "ts_finally", "ts_exc_lock", "ts_exc_cache"}

InTransitionState(p) ==
    /\ frame[p].op \in {"transition_state", "execute_transition"}
    /\ pc[p] \in TransitionStatePcs

\* The locked section: from the successful add of the lock key up to the
\* delete of the key in the finally clause.
InLockedSection(p) == pc[p] \in {"ts_insert", "ts_cache_set", "ts_finally"}

\* --------------------------------------------------------- a crashed writer
\* The process of p dies inside the locked section, the only one that
\* does: it makes no further step, and the lock key it added stays until it
\* times out.
Crash(p) ==
    /\ InLockedSection(p)
    /\ lock = p
    /\ \A q \in Procs : pc[q] # "crashed"
    /\ pc' = [pc EXCEPT ![p] = "crashed"]
    /\ UNCHANGED <<cascade, organizations, registries, uuids, workflow, context, registry, hooks, entity, records, cache, lock, calls,
                   frame, result, event>>

\* The steps of a transition_state call while the database and the cache
\* work.
Run(p) ==
    \/ CacheGet(p)
    \/ DbRead(p)
    \/ CacheFill(p)
    \/ TransitionDisabled(p)
    \/ SameStateCheck(p)
    \/ LockAcquire(p)
    \/ LockBusy(p)
    \/ InsertRecord(p)
    \/ CacheWriteThrough(p)
    \/ ReleaseLock(p)

\* A task with the records and the cache entry earlier transitions left;
\* every caller makes one transition_state call, and may die while it holds
\* the lock.
InitCrash == InitOps /\ entity = "task"

NextCrash ==
    \/ \E p \in Procs :
          \/ pc[p] = "idle" /\ CallTransitionState(p)
          \/ Run(p)
          \/ Crash(p)
    \/ LockExpire
    \/ CacheExpire

\* The cache backend drops the lock key when its 5 seconds are over, and a
\* thread that has not died goes on running.
SpecCrash ==
    /\ InitCrash
    /\ [][NextCrash]_vars
    /\ WF_vars(LockExpire)
    /\ \A p \in Procs : WF_vars(Run(p))

\* This step ends p's transition_state.
TransitionStateEnds(p) ==
    InTransitionState(p) /\ pc'[p] \in {"done", "ex_fetch"}

TransitionStateReturnsTrue(p) ==
    /\ TransitionStateEnds(p)
    /\ pc'[p] = "ex_fetch" \/ result'[p] = "True"

TransitionStateRaises(p) ==
    /\ TransitionStateEnds(p)
    /\ pc'[p] = "done"
    /\ result'[p] = "StateManagerError"

\* C1: the StateRecords of the entity, ordered by id, form a chain: the first
\* has previous_state None, every other one has the state of the record
\* before it as its previous_state.
C1_Chain ==
    \A i \in 1..Len(records) :
        records[i].previous_state =
            IF i = 1 THEN NoState ELSE records[i - 1].state

\* C2: at most one caller at a time is inside the locked section of
\* transition_state.
C2_MutualExclusion ==
    \A p, q \in Procs : p # q => ~(InLockedSection(p) /\ InLockedSection(q))

C4_ExecuteRecord ==
    \A p \in Procs :
        pc[p] = "ex_finalize" /\ frame[p].new_state_record # NoRecord
           => /\ frame[p].state_record = frame[p].new_state_record
              /\ RecordById(records, frame[p].state_record).previous_state
                    = frame[p].context_state
              /\ RecordById(records, frame[p].state_record).state = frame[p].new_state

\* A transition_state call without force_state_record whose current state is
\* already its new_state while a StateRecord exists.
SameStateCall(p) ==
    /\ InTransitionState(p)
    /\ pc[p] \in {"gcs_set", "ts_check"}
    /\ ~frame[p].force_state_record
    /\ frame[p].current_state = frame[p].new_state
    /\ StateRecordExists(records)

\* C5 as stated: no step of such a call changes the StateRecords, the cache
\* entry or the lock key, and the call returns True.
C5_NothingChanges ==
    [][\A p \in Procs :
          SameStateCall(p) /\ pc'[p] # pc[p]
             => /\ UNCHANGED <<records, cache, lock>>
                /\ pc[p] = "ts_check" => TransitionStateReturnsTrue(p)]_vars

\* C5 amended: such a call returns True from its same-state check, no step of
\* it changes the StateRecords or the lock key, and the cache entry is left
\* as it is but for the read-through of a cache miss, which sets it to S.
C5_SameStateNoRecord ==
    [][\A p \in Procs :
          SameStateCall(p) /\ pc'[p] # pc[p]
             => /\ UNCHANGED <<records, lock>>
                /\ pc[p] = "ts_check"
                      => UNCHANGED cache /\ TransitionStateReturnsTrue(p)
                /\ pc[p] = "gcs_set" => cache' = frame[p].new_state]_vars

\* A same-state call has filled the cache on a miss and is about to return
\* from its check, the record count unchanged.
C5_Witness ==
    \E p \in Procs :
        /\ SameStateCall(p)
        /\ pc[p] = "ts_check"
        /\ frame[p].op = "transition_state"
        /\ cache = frame[p].new_state
        /\ Len(records) = 1

\* A transition_state call with force_state_record whose current state is
\* already its new_state.
ForcedSameStateCall(p) ==
    /\ InTransitionState(p)
    /\ frame[p].force_state_record
    /\ frame[p].current_state = frame[p].new_state

\* C6 as stated: when such a call is over it has created a new StateRecord
\* with state == S and previous_state == S.
C6_ForcedCreatesRecord ==
    [][\A p \in Procs :
          ForcedSameStateCall(p) /\ TransitionStateEnds(p)
             => /\ frame[p].new_state_record # NoRecord
                /\ RecordById(records', frame[p].new_state_record).state = frame[p].new_state
                /\ RecordById(records', frame[p].new_state_record).previous_state
                      = frame[p].new_state]_vars

\* C6 amended: such a call that gets the lock and returns True has created
\* exactly one new StateRecord, with state == S and previous_state == S, and
\* S is still the latest state of an annotation; a call that finds the lock
\* key present returns True and has created none; no call inserts twice.
C6_ForcedAudit ==
    [][\A p \in Procs :
          /\ ForcedSameStateCall(p) /\ TransitionStateReturnsTrue(p)
                => IF frame[p].lock_acquired
                   THEN /\ frame[p].new_state_record # NoRecord
                        /\ RecordById(records', frame[p].new_state_record)
                              = [id |-> frame[p].new_state_record,
                                 state |-> frame[p].new_state,
                                 previous_state |-> frame[p].new_state,
                                 by |-> p]
                        /\ entity = "annotation"
                              => LatestState(records') = "SUBMITTED"
                   ELSE /\ frame[p].new_state_record = NoRecord
                        /\ event'[p] = "concurrent_transition_skipped"
          /\ ForcedSameStateCall(p) /\ records' # records /\ pc'[p] # pc[p]
                => /\ Len(records') = Len(records) + 1
                   /\ frame[p].new_state_record = NoRecord]_vars

\* An annotation_updated-like call (forced, SUBMITTED -> SUBMITTED) has
\* inserted its record as the second record of the annotation.
C6_Witness ==
    \E p \in Procs :
        /\ entity = "annotation"
        /\ ForcedSameStateCall(p)
        /\ pc[p] = "ts_finally"
        /\ ~frame[p].failed
        /\ frame[p].new_state_record = 2
        /\ records[2].previous_state = "SUBMITTED"
        /\ records[2].state = "SUBMITTED"

\* What get_current_state_value returns when it runs alone in this state.
CurrentStateValue ==
    IF cache # NoState THEN cache ELSE LatestState(records)

\* C7, on the calls that inserted a record: when transition_state(E, X)
\* returns True, get_current_state_value(E) returns X and X is the state of
\* the StateRecord with the largest id.
C7_CacheConsistent ==
    [][\A p \in Procs :
          TransitionStateReturnsTrue(p) /\ frame[p].new_state_record # NoRecord
             => /\ CurrentStateValue' = frame[p].new_state
                /\ LatestState(records') = frame[p].new_state]_vars

\* C8: when transition_state raises StateManagerError out of its locked
\* section, the cache entry is absent and the call has added no record.
C8_FailureLeavesNoRecord ==
    [][\A p \in Procs :
          TransitionStateRaises(p) /\ frame[p].lock_acquired
             => /\ cache' = NoState
                /\ frame[p].new_state_record = NoRecord]_vars

\* C9 as stated: transition_state raises StateManagerError only after the
\* lock release and the cache invalidation, that is from the end of its
\* except handler.
C9_RaisesOnlyAfterCleanup ==
    [][\A p \in Procs :
          TransitionStateRaises(p)
             => pc[p] = "ts_exc_cache" /\ cache' = NoState /\ lock' # p]_vars

\* C9 amended: a caller holds the lock key only inside the locked section of
\* its call, so a call that acquired the lock has released it when it
\* returns or raises; a call that acquired the lock raises StateManagerError
\* only from the end of its handler, after the lock delete and with the
\* cache entry invalidated; a call that did not acquire it raises only out of
\* its current-state read.
C9_ReleaseBeforeReturn ==
    /\ [](\A p \in Procs : lock = p => InLockedSection(p))
    /\ [][\A p \in Procs :
             /\ TransitionStateEnds(p) /\ frame[p].lock_acquired
                   => /\ lock' # p
                      /\ pc[p] \in {"ts_finally", "ts_exc_cache"}
             /\ TransitionStateRaises(p)
                   => IF frame[p].lock_acquired
                      THEN pc[p] = "ts_exc_cache" /\ cache' = NoState
                      ELSE pc[p] = "gcs_db"]_vars

\* A call that acquired the lock and failed has raised StateManagerError:
\* the lock key and the cache entry are gone.
C9_Witness ==
    \E p \in Procs :
        /\ pc[p] = "done"
        /\ result[p] = "StateManagerError"
        /\ event[p] = "transition_state_failed"
        /\ lock = NoProc
        /\ cache = NoState

\* C10: a transition_state that finds the lock key present ends in that very
\* step with True and leaves StateRecords, cache entry and lock key as they
\* are.
C10_LockBusyNoOp ==
    [][\A p \in Procs :
          pc[p] = "ts_lock" /\ lock # NoProc /\ pc'[p] # pc[p]
             => /\ TransitionStateReturnsTrue(p)
                /\ UNCHANGED <<records, cache, lock>>]_vars

\* A call has returned True after it found the lock key held by the other
\* caller, who still holds it.
C10_Witness ==
    \E p \in Procs :
        /\ pc[p] = "done"
        /\ result[p] = "True"
        /\ event[p] = "concurrent_transition_skipped"
        /\ lock \in Procs \ {p}
        /\ InLockedSection(lock)

\* C11: while the feature gate reports FSM disabled for a call, a step of
\* get_current_state_value ends the call with None and a step of
\* transition_state ends it with True, both leaving StateRecords, cache entry
\* and lock key as they are, and no step of an execute_transition changes
\* the StateRecords.
C11_DisabledNoOp ==
    [][\A p \in Procs :
          ~frame[p].fsm_enabled /\ pc'[p] # pc[p]
             => /\ frame[p].op = "get_current_state_value"
                      => /\ pc'[p] = "done"
                         /\ result'[p] = NoState
                         /\ UNCHANGED <<records, cache, lock>>
                /\ frame[p].op = "transition_state"
                      => /\ pc'[p] = "done"
                         /\ result'[p] = "True"
                         /\ UNCHANGED <<records, cache, lock>>
                /\ frame[p].op = "execute_transition"
                      => /\ UNCHANGED records
                         /\ pc[p] = "ts_off" => TransitionStateReturnsTrue(p)
                         /\ pc'[p] = "done" /\ pc[p] = "ex_finalize"
                               => frame[p].new_state_record = NoRecord]_vars

\* A transition executed with the feature off has come back from
\* transition_state without a record of its own, while the entity has
\* StateRecords and a cache entry.
C11_Witness ==
    \E p \in Procs :
        /\ pc[p] = "ex_finalize"
        /\ ~frame[p].fsm_enabled
        /\ frame[p].new_state_record = NoRecord
        /\ Len(records) > 0
        /\ cache # NoState

\* The ids of a sequence are strictly descending.
StrictlyDescending(ids) ==
    \A i \in 1..Len(ids) : \A j \in 1..Len(ids) : i < j => ids[i] > ids[j]

PhasesOf(hs) == [i \in 1..Len(hs) |-> hs[i].ph]

\* Position of a phase in the fixed order of an execution.
Rank(ph) ==
    CASE ph = "validate" -> 1
      [] ph = "pre_hook" -> 2
      [] ph = "transition" -> 3
      [] ph = "persist" -> 4
      [] ph = "post_hook" -> 5

\* Phase ph has failed in the run hs.
PhaseFailed(hs, ph) == \E i \in 1..Len(hs) : hs[i].ph = ph /\ ~hs[i].ok

\* C14 as stated: an execution of a transition with a target state that has
\* come to its end has run validate, pre_hook, transition, the StateRecord
\* write and post_hook, each once and in this order.
C14_AllPhases ==
    [][\A p \in Procs :
          pc[p] = "ex_finalize" /\ pc'[p] = "done"
             => PhasesOf(hooks'[p]) = <<"validate", "pre_hook", "transition",
                                        "persist", "post_hook">>]_vars

\* C14 amended: the phases an execution runs follow the fixed order and none
\* is repeated; an execution with a target state that has come to its end
\* has run pre_hook, transition and post_hook, validate before them unless
\* the call skips validation, and the StateRecord write between transition
\* and post_hook exactly if its transition_state acquired the lock, which it
\* does not do when the feature is off, when the target is the current
\* state and no record is forced, or when the lock key is present.
C14_PhaseOrder ==
    /\ [](\A p \in Procs :
             \A i \in 1..Len(hooks[p]) : \A j \in 1..Len(hooks[p]) :
                 i < j => Rank(hooks[p][i].ph) < Rank(hooks[p][j].ph))
    /\ [][\A p \in Procs :
             pc[p] = "ex_finalize" /\ pc'[p] = "done"
                => /\ PhasesOf(hooks'[p]) =
                         (IF frame[p].skip_validation THEN <<>>
                          ELSE <<"validate">>)
                         \o <<"pre_hook", "transition">>
                         \o (IF frame[p].lock_acquired THEN <<"persist">>
                             ELSE <<>>)
                         \o <<"post_hook">>
                   /\ ~frame[p].lock_acquired
                         => \/ ~frame[p].fsm_enabled
                            \/ event[p] = "concurrent_transition_skipped"
                            \/ /\ frame[p].current_state = frame[p].new_state
                               /\ ~frame[p].force_state_record]_vars

\* An execution has run all five phases and returned its record.
C14_Witness ==
    \E p \in Procs :
        /\ pc[p] = "done"
        /\ result[p] = "StateRecord"
        /\ PhasesOf(hooks[p]) = <<"validate", "pre_hook", "transition",
                                  "persist", "post_hook">>
        /\ \A i \in 1..Len(hooks[p]) : hooks[p][i].ok

C16_TransitionRaises ==
    /\ [](\A p \in Procs : \A i \in 1..Len(hooks[p]) :
             hooks[p][i].ph = "transition" /\ ~hooks[p][i].ok
                => /\ i = Len(hooks[p])
                   /\ i > 1
                   /\ hooks[p][i - 1].ph = "pre_hook" /\ hooks[p][i - 1].ok)
    /\ [][\A p \in Procs :
             pc[p] = "ex_context" /\ PhaseFailed(hooks'[p], "transition")
                => /\ pc'[p] = "done"
                   /\ result'[p] = "HookError"
                   /\ UNCHANGED <<records, cache, lock>>]_vars

\* A call has raised what its transition() raised, after validation and pre
\* hook went through.
C16_Witness ==
    \E p \in Procs :
        /\ pc[p] = "done"
        /\ result[p] = "HookError"
        /\ PhasesOf(hooks[p]) = <<"validate", "pre_hook", "transition">>
        /\ PhaseFailed(hooks[p], "transition")

\* C17: when the post hook raises after the call has written its
\* StateRecord, execute_transition returns the record and the StateRecords
\* stay as they are.
C17_PostHookSwallowed ==
    [][\A p \in Procs :
          (/\ pc[p] = "ex_finalize"
           /\ frame[p].new_state_record # NoRecord
           /\ PhaseFailed(hooks'[p], "post_hook"))
             => /\ pc'[p] = "done"
                /\ result'[p] = "StateRecord"
                /\ UNCHANGED records]_vars

ExpectedNames(reg, is_creating, changed_fields) ==
    LET Sel(t) == \/ is_creating /\ t.triggers_on_create
                  \/ /\ ~is_creating
                     /\ t.triggers_on_update
                     /\ \/ t.trigger_fields = {}
                        \/ t.trigger_fields \cap changed_fields # {}
        sel == SelectSeq(reg, Sel)
    IN  [i \in 1..Len(sel) |-> sel[i].name]

\* The transitions whose should_execute a discovery evaluated, in order.
EvaluatedNames(hs) ==
    LET IsEval(h) == h.ph = "should_execute"
        sel == SelectSeq(hs, IsEval)
    IN  [i \in 1..Len(sel) |-> sel[i].t]

\* C19: the transitions trigger discovery hands to the should_execute filter
\* are, in registration order, exactly the registered ones with
\* triggers_on_create on a create, and on an update exactly those with
\* triggers_on_update whose trigger_fields is empty or shares a field with
\* changed_fields.
C19_TriggerDiscovery ==
    [][\A p \in Procs :
          (/\ pc[p] = "sv_discover"
           /\ \/ pc'[p] = "sv_loop"
              \/ result'[p] = "transitions")
          => EvaluatedNames(hooks'[p]) =
                 ExpectedNames(registry, frame[p].is_creating,
                               frame[p].changed_fields)]_vars

\* A discovery on update left out the first registered transition, which
\* triggers on update for fields that did not change, and selected the second.
C19_Witness ==
    \E p \in Procs :
        /\ result[p] = "transitions"
        /\ Len(registry) = 2
        /\ registry[1].triggers_on_update
        /\ registry[1].triggers_on_create
        /\ registry[1].trigger_fields # {}
        /\ registry[2].trigger_fields # {}
        /\ EvaluatedNames(hooks[p]) = <<registry[2].name>>

\* ---------------------------------------------------------------- C20
\* The transitions a save handed to execute_transition, in order.
ExecutedNames(hs) ==
    LET IsExec(h) == h.ph = "execute_transition"
        sel == SelectSeq(hs, IsExec)
    IN  [i \in 1..Len(sel) |-> sel[i].t]

\* C20: in a save with FSM enabled whose entity write succeeded, a failure
\* of discovery or of one transition is caught and logged, every discovered
\* transition is still executed, and save returns the result of the write.
C20_SaveNeverFails ==
    [][\A p \in Procs :
          /\ (/\ frame[p].outer = "save"
               /\ pc[p] # "sv_write"
               /\ pc'[p] = "done")
              => /\ result'[p] = "saved"
                 /\ pc[p] = "sv_discover"
                       => event'[p] = "transition_discovery_failed"
                 /\ pc[p] # "sv_discover"
                       => ExecutedNames(hooks'[p]) = frame[p].transitions
          /\ (/\ pc[p] = "sv_next"
               /\ pc'[p] # "sv_next"
               /\ IsError(frame[p].ret))
              => /\ event'[p] = "transition_failed_on_save"
                 /\ pc'[p] = "sv_loop"]_vars

\* A save returned the result of the write after one of its transitions
\* failed and a later one wrote a state record.
C20_Witness ==
    \E p \in Procs :
        /\ pc[p] = "done"
        /\ result[p] = "saved"
        /\ event[p] = "transition_failed_on_save"
        /\ \E i, j \in 1..Len(hooks[p]) :
              /\ i < j
              /\ hooks[p][i].ph # "should_execute"
              /\ ~hooks[p][i].ok
              /\ hooks[p][j].ph = "persist"
              /\ hooks[p][j].t # hooks[p][i].t

\* ---------------------------------------------------------------- C12
\* C12: the StateRecord store is append-only: whatever operation takes a
\* step, every record that exists stays as it is, at its place.
C12_AppendOnly ==
    [][/\ Len(records') >= Len(records)
       /\ \A i \in 1..Len(records) : records'[i] = records[i]]_vars

\* The store holds three records, the last one written by a transition of
\* this behaviour, and a warm_cache has filled the cache and returned.
C12_Witness ==
    /\ Len(records) = 3
    /\ \E p \in Procs : pc[p] = "done" /\ event[p] = "cache_warmed"

\* ---------------------------------------------------------------- C21
\* C21: in a save nothing is discovered or executed before the entity write
\* has succeeded; a write that raises ends the save with no transition run
\* and no record created; is_creating and changed_fields stay, through the
\* whole save, the values captured before the write.
C21_AfterEntityWrite ==
    /\ [](\A p \in Procs :
            (frame[p].op = "save" /\ pc[p] = "sv_write") => hooks[p] = <<>>)
    /\ [][\A p \in Procs :
            /\ (/\ pc[p] = "sv_write"
                 /\ pc'[p] = "done"
                 /\ result'[p] = "DatabaseError")
                => (hooks'[p] = <<>> /\ records' = records)
            /\ (frame[p].outer = "save" /\ frame'[p].outer = "save")
                => /\ frame'[p].is_creating = frame[p].is_creating
                   /\ frame'[p].changed_fields = frame[p].changed_fields]_vars

\* A creating save, whose instance is no longer adding after the write, has
\* executed a transition that wrote a state record.
C21_Witness ==
    \E p \in Procs :
        /\ frame[p].outer = "save"
        /\ frame[p].is_creating
        /\ ~frame[p].adding
        /\ \E i \in 1..Len(hooks[p]) : hooks[p][i].ph = "persist"

\* ---------------------------------------------------------------- C22
\* C22: a save with skip_fsm, or on a thread where set_fsm_disabled(True) is
\* in force, ends at the entity write: nothing discovered or executed, no
\* record created. is_fsm_enabled() is False while the thread is disabled
\* and the cached feature flag otherwise, so after set_fsm_disabled(False) a
\* save on a thread whose cached flag is on goes on to discovery again.
C22_FsmDisabled ==
    [][\A p \in Procs :
          /\ (/\ frame[p].op = "save"
               /\ pc[p] = "sv_write"
               /\ pc'[p] # "sv_write"
               /\ (frame[p].skip_fsm \/ context[p].fsm_disabled = "True"))
              => /\ pc'[p] = "done"
                 /\ hooks'[p] = <<>>
                 /\ records' = records
          /\ (/\ frame[p].op = "save"
               /\ pc[p] = "sv_write"
               /\ pc'[p] # "sv_write"
               /\ result'[p] # "DatabaseError"
               /\ ~frame[p].skip_fsm
               /\ context[p].fsm_disabled # "True"
               /\ context[p].fsm_enabled_cached = "True")
              => pc'[p] = "sv_discover"
          /\ (/\ pc[p] = "idle"
               /\ pc'[p] = "done"
               /\ result'[p] \in {"True", "False"}
               /\ (\/ context[p].fsm_disabled # "absent"
                   \/ context[p].fsm_enabled_cached # "absent"))
              => result'[p] =
                    IF /\ context[p].fsm_disabled # "True"
                       /\ context[p].fsm_enabled_cached = "True"
                    THEN "True" ELSE "False"]_vars

\* On a thread that was switched back with set_fsm_disabled(False), a save
\* has executed a transition that wrote a state record.
C22_Witness ==
    \E p \in Procs :
        /\ context[p].fsm_disabled = "False"
        /\ pc[p] = "done"
        /\ result[p] = "saved"
        /\ \E i \in 1..Len(hooks[p]) : hooks[p][i].ph = "persist"

\* ---------------------------------------------------------------- C23
\* This step ends a get_or_initialize_state call of p.
InitializeEnds(p) ==
    pc[p] \in {"goi_off", "goi_check", "goi_done"} /\ pc'[p] = "done"

\* C23: with calls made one after another on an entity without state record,
\* get_current_state_value returns None; a get_or_initialize_state call that
\* initializes leaves exactly one record, with previous_state null and the
\* inferred state; every call returns the state of that one record, and a
\* call that finds a current state adds nothing.
C23_ColdStart ==
    [][\A p \in Procs :
          /\ (/\ frame[p].op = "get_current_state_value"
               /\ ~Nested(p)
               /\ pc'[p] = "done"
               /\ records' = <<>>
               /\ result'[p] # "StateManagerError")
              => result'[p] = NoState
          /\ (InitializeEnds(p) /\ result'[p] # NoState)
              => /\ Len(records') = 1
                 /\ records'[1].previous_state = NoState
                 /\ records'[1].state = result'[p]
          /\ (/\ InitializeEnds(p)
               /\ pc[p] = "goi_done"
               /\ ~IsError(frame[p].ret))
              => records'[1].state = frame[p].inferred_state
          /\ (frame[p].outer = "get_or_initialize_state" /\ records # <<>>)
              => records' = records]_vars

\* ---------------------------------------------------------------- C24
\* The bootstrap records of the entity: those with previous_state null.
BootstrapRecords ==
    {i \in 1..Len(records) : records[i].previous_state = NoState}

\* C24: callers that get_or_initialize the state of an entity without state
\* record concurrently leave at most one bootstrap record in every
\* interleaving.
C24_OneBootstrap == Cardinality(BootstrapRecords) <= 1

\* ---------------------------------------------------------------- C28
\* C28: for a UUID7Generator and a fixed offset_ms, every call of
\* generate(offset_ms) returns an id whose integer is strictly greater than
\* the integer of the id the previous call returned, however many calls
\* have been made.
C28_StrictlyIncreasing ==
    (/\ Len(uuids.produced) = 2
     /\ uuids.offsets[1] = uuids.offsets[2])
    => uuids.produced[2] > uuids.produced[1]

\* ---------------------------------------------------------------- C29
\* C29: for every start <= end, uuid7_time_range(start, end) returns two
\* version-7 ids low < high; every version-7 id whose embedded millisecond
\* timestamp t satisfies start_ms - 1 <= t <= end_ms + 1 lies in the closed
\* range [low, high], and every id whose timestamp lies outside that
\* interval lies outside the range.
C29_TimeRange ==
    uuids.bounds # <<>> =>
        LET b == uuids.bounds[1]
            start_ms == TimestampMs(b.start_time)
            end_ms == TimestampMs(b.end_time)
        IN /\ b.returned
           /\ validate_uuid7(b.start_uuid)
           /\ validate_uuid7(b.end_uuid)
           /\ b.start_uuid < b.end_uuid
           /\ \A id \in Version7Ids :
                 (start_ms - 1 <= EmbeddedMs(id) /\ EmbeddedMs(id) <= end_ms + 1)
                 <=> (b.start_uuid <= id /\ id <= b.end_uuid)

\* ---------------------------------------------------------------- C30
\* C30: for every version-7 id produced by generate_uuid7,
\* UUID7Generator.generate or uuid7_from_timestamp, the timestamp embedded
\* in uuid7_from_timestamp(timestamp_from_uuid7(id)) differs from the
\* timestamp embedded in id by less than one millisecond, and the rebuilt
\* id is a valid version-7 id not greater than id.
C30_RoundTrip ==
    uuids.rebuilt # <<>> =>
        LET id == uuids.id[1]
            rebuilt == uuids.rebuilt[1]
        IN /\ EmbeddedMs(id) - EmbeddedMs(rebuilt) < 1
           /\ EmbeddedMs(rebuilt) - EmbeddedMs(id) < 1
           /\ validate_uuid7(rebuilt)
           /\ rebuilt <= id

\* ---------------------------------------------------------------- C25
\* The last three requests created task t with the feature on in a project
\* without StateRecord that has other tasks, all unlabeled, then submitted
\* a first annotation on t, then deleted that annotation, the feature on
\* and nothing failing.
CreatedSubmittedDeleted(t) ==
    LET log == workflow.log
        n == Len(log)
    IN /\ n >= 3
       /\ \A i \in {n - 2, n - 1, n} :
             /\ log[i].task = t
             /\ log[i].fsm_enabled
             /\ log[i].failed = "none"
       /\ log[n - 2].op = "create"
       /\ log[n - 2].project_before = <<>>
       /\ log[n - 2].others # {}
       /\ log[n - 2].others_labeled = {}
       /\ log[n - 1].op = "submit"
       /\ log[n].op = "delete"

\* C25: with FSM enabled, after a task is created in a project that has no
\* StateRecord and has other unlabeled tasks, a first annotation is
\* submitted on the task and that annotation is deleted, the task's history
\* is exactly the three records null->CREATED, CREATED->COMPLETED,
\* COMPLETED->IN_PROGRESS (oldest first), the project's history is exactly
\* the one record null->IN_PROGRESS, and both current states are
\* IN_PROGRESS.
C25_CreateSubmitDelete ==
    \A t \in Tasks :
        CreatedSubmittedDeleted(t) =>
            /\ workflow.tasks[t].history =
                  <<[state |-> "CREATED", previous_state |-> NoState],
                    [state |-> "COMPLETED", previous_state |-> "CREATED"],
                    [state |-> "IN_PROGRESS", previous_state |-> "COMPLETED"]>>
            /\ workflow.project =
                  <<[state |-> "IN_PROGRESS", previous_state |-> NoState]>>
            /\ StateOf(workflow.tasks[t].history) = "IN_PROGRESS"
            /\ StateOf(workflow.project) = "IN_PROGRESS"

C25_Witness ==
    /\ CreatedSubmittedDeleted("t1")
    /\ Len(workflow.tasks["t1"].history) = 3
    /\ Len(workflow.project) = 1

\* ---------------------------------------------------------------- C26
\* The state the project is in when it follows its tasks: COMPLETED when
\* every task is labeled, IN_PROGRESS otherwise.
ProjectFollowsTasks ==
    StateOf(workflow.project) =
        IF LabeledTasks(workflow) = ExistingTasks(workflow)
        THEN "COMPLETED" ELSE "IN_PROGRESS"

\* C26: after every completed annotation submission or annotation deletion
\* (FSM enabled) on a project in which at least one task is labeled, the
\* project's current state is COMPLETED if all of its tasks are labeled
\* and IN_PROGRESS otherwise, for any sequence of requests before it and
\* whatever the project's state was before.
C26_ProjectFollowsTasks ==
    LET log == workflow.log
        n == Len(log)
    IN (/\ n >= 1
        /\ log[n].op \in {"submit", "delete"}
        /\ log[n].fsm_enabled
        /\ log[n].failed = "none"
        /\ LabeledTasks(workflow) # {})
       => ProjectFollowsTasks

\* ---------------------------------------------------------------- C27
\* The last request ran update_task_state_after_annotation_deletion with
\* the feature on.
DeletionHandled ==
    /\ workflow.log # <<>>
    /\ workflow.log[Len(workflow.log)].op \in {"delete", "update_task_state"}
    /\ workflow.log[Len(workflow.log)].fsm_enabled

\* A record is added to the task only when its state changes.
RecordOnlyOnChange ==
    LET last == workflow.log[Len(workflow.log)]
        history == workflow.tasks[last.task].history
    IN \/ history = last.task_before
       \/ /\ Len(history) = Len(last.task_before) + 1
          /\ SubSeq(history, 1, Len(last.task_before)) = last.task_before
          /\ StateOf(history) # StateOf(last.task_before)
          /\ history[Len(history)].previous_state = StateOf(last.task_before)

C31_AsStated ==
    (registries.last # <<>> /\ registries.last[1].op = "get")
    => registries.last[1].returned =
          DictGet(registries.registered, registries.last[1].key)

\* C31: in each of the three registries, whatever was registered, got,
\* cleared or changed in a returned dictionary, get(k) gives the value of
\* the most recent register since the last clear() under a key the registry
\* compares equal to k (the entity name lower-cased in the state choices and
\* state model registries, the exact names in the transition registry), and
\* none if there was none; list_entities gives exactly those keys' entity
\* names; after clear() the registry is empty.
C31_Registries ==
    /\ \A key \in RegistryKeys(registries.kind) :
          RegistryGet(registries.kind, registries.dict, key)
             = DictGet(registries.stored, StoredKey(registries.kind, key))
    /\ registries.last # <<>> =>
          LET last == registries.last[1]
          IN  /\ last.op = "get" =>
                    last.returned
                       = DictGet(registries.stored,
                                 StoredKey(registries.kind, last.key))
              /\ last.op = "list_entities" =>
                    last.returned
                       = {key[1] : key \in DOMAIN registries.stored}
              /\ last.op = "clear" => registries.dict = EmptyDict

\* A returned dictionary was changed while the registry held something.
C31_Witness ==
    /\ registries.last # <<>>
    /\ registries.last[1].op = "mutate"
    /\ registries.stored # EmptyDict
    /\ \E key \in DOMAIN registries.registered :
          StoredKey(registries.kind, key) # key

\* ---------------------------------------------------------------- C32
\* This step is p's discovery handing its list to the loop of save.
Discovers(p) == pc[p] = "sv_discover" /\ pc'[p] = "sv_loop"

\* The discovery recorded an evaluation of should_execute of the transition
\* named, which returned True (ok) or did not.
EvaluatedAs(hs, name, ok) ==
    \E j \in 1..Len(hs) :
        hs[j].t = name /\ hs[j].ph = "should_execute" /\ hs[j].ok = ok

\* The registered transitions the trigger metadata select and whose
\* should_execute, with the outcomes se, did not return False, in
\* registration order.
NotRefused(reg, is_creating, changed_fields, se) ==
    LET Keeps(i) == /\ TriggerSelected(reg[i], is_creating, changed_fields)
                    /\ se[i] # "False"
        sel == SelectSeq([i \in 1..Len(reg) |-> i], Keeps)
    IN  [k \in 1..Len(sel) |-> reg[sel[k]].name]

RECURSIVE FirstNonNull(_)
FirstNonNull(values) ==
    IF values = <<>> THEN <<>>
    ELSE IF Head(values) # <<>> THEN Head(values)
         ELSE FirstNonNull(Tail(values))

\* C33: the organization_id of a record written by a transition is the
\* first non-null value among the organization_id passed to the call (to
\* transition_state or to execute_transition), the entity's own
\* organization_id, the parent entity's organization_id and the acting
\* user's active organization id, in this order.
C33_OrganizationPrecedence ==
    \A i \in 1..Len(organizations.writes) :
        LET w == organizations.writes[i]
        IN  w.written =
               FirstNonNull(<<w.organization_id,
                              EntityOrganizationId(w.entity, <<>>),
                              w.parent, w.user>>)

\* ---------------------------------------------------------------- C39
\* The explicit inputs of a call that wrote a record.
ExplicitInputs(w) == <<w.call, w.organization_id, w.entity, w.parent, w.user>>

\* C39: the organization_id of a record depends only on the explicit inputs
\* of the call: two calls with the same organization_id argument, entity,
\* parent and user write the same organization_id whatever earlier calls
\* left in CurrentContext, and a call without an organization_id argument
\* on an entity that has its own organization_id writes that one.
C39_NoAmbientOrganization ==
    /\ \A i, j \in 1..Len(organizations.writes) :
          ExplicitInputs(organizations.writes[i])
             = ExplicitInputs(organizations.writes[j])
          => organizations.writes[i].written = organizations.writes[j].written
    /\ \A i \in 1..Len(organizations.writes) :
          LET w == organizations.writes[i]
          IN  (w.organization_id = <<>> /\ w.entity.organization_id # <<>>)
              => w.written = w.entity.organization_id

\* ---------------------------------------------------------------- C34
\* This step is p's fsm_cache.set (set_many) of the entity's cache entry:
\* the fill after a miss, the batched write of warm_cache or the
\* write-through of transition_state.
CacheSetBy(p) ==
    \/ pc[p] = "gcs_set" /\ pc'[p] # "gcs_set"
    \/ /\ pc[p] = "wc_set" /\ pc'[p] # "wc_set"
       /\ ~IsError(frame[p].ret) /\ frame[p].ret # NoState
    \/ pc[p] = "ts_cache_set" /\ pc'[p] = "ts_finally"

\* C34: the entity's cache entry is set only by a caller that holds the
\* entity's lock at that moment; a read (get_current_state_value,
\* get_state_history, get_states_in_time_range, warm_cache) never sets it
\* without holding the lock.
C34_CacheWrittenUnderLock ==
    [][\A p \in Procs : CacheSetBy(p) => lock = p]_vars

\* ---------------------------------------------------------------- C35
\* p has called transition_state, to a state that is not the state of the
\* latest record, after a writer died holding the lock and the lock key
\* timed out.
CallAfterExpiry(p) ==
    /\ pc[p] = "gcs_get"
    /\ frame[p].op = "transition_state"
    /\ frame[p].new_state # LatestState(records)
    /\ lock = NoProc
    /\ \E q \in Procs : pc[q] = "crashed"

\* C35: after a writer died holding the lock, a transition_state call that
\* finds the lock key returns True without writing; once the key has timed
\* out, a transition_state call to a different target state acquires the
\* lock and persists its record.
C35_CrashedHolder ==
    /\ \A p \in Procs :
          CallAfterExpiry(p) ~> (frame[p].new_state_record # NoRecord)
    /\ [][\A p \in Procs :
             (/\ pc[p] = "ts_lock"
              /\ pc'[p] # "ts_lock"
              /\ lock # NoProc
              /\ pc[lock] = "crashed")
             => (result'[p] = "True" /\ records' = records)]_vars

\* ---------------------------------------------------------------- C36
\* C36: whenever no caller is inside a transition of the entity and the
\* entity's cache entry is present, the cached value is the state of the
\* StateRecord with the largest id, however the readers that fill the cache
\* after a miss interleave with the writers.
C36_CacheIsLatest ==
    ((\A p \in Procs : ~InTransitionState(p)) /\ cache # NoState)
    => cache = LatestState(records)

\* ---------------------------------------------------------------- C37
\* This step is p's fsm_cache.delete(lock_key), in the finally clause or in
\* the except handler of transition_state.
LockDeleteBy(p) ==
    pc[p] \in {"ts_finally", "ts_exc_lock"} /\ pc'[p] # pc[p]

\* C37: a caller's delete of the lock key removes a key only if that caller
\* added it: no transition_state call deletes the lock key another caller
\* holds, neither on its way to return True nor in its failure cleanup.
C37_DeleteOwnLockOnly ==
    [][\A p \in Procs :
          (LockDeleteBy(p) /\ lock # NoProc) => lock = p]_vars

\* p is in a hook of a transition, or between two steps of the annotation
\* post hook and of the functions it calls.
InHook(p) ==
    /\ cascade.stack[p] # <<>>
    /\ \/ Top(p).op # "execute_transition"
       \/ Top(p).at \in {"prepare", "finalize", "return"}

\* C38: no transition hook runs while the caller holds a lock:
\* prepare_and_validate (validate_transition, the pre hook, transition())
\* is over before the caller sets the lock key of the entity, and the post
\* hook starts after the key is deleted, so whenever a caller enters a hook,
\* is inside the annotation post hook or one of the functions it calls, or
\* starts a nested transition, it holds the lock of no entity; and every
\* call of execute_transition, with the cascade its post hook starts, ends.
C38_HooksOutsideLocks ==
    /\ [](\A p \in Procs :
             /\ cascade.ran[p] # <<>> => cascade.ran[p][1].held = {}
             /\ InHook(p) => Held(p) = {}
             /\ Held(p) \subseteq {e \in CascadeEntities :
                                      /\ cascade.stack[p] # <<>>
                                      /\ Top(p).entity = e})
    /\ \A p \in Procs :
          (cascade.stack[p] # <<>>) ~> (cascade.stack[p] = <<>>)

\* A caller's annotation_submitted has gone through the whole cascade: the
\* last hook it entered was the post hook of a project transition it
\* executed from inside the annotation post hook, after it had written the
\* annotation and the task under their locks, and the call has returned.
C38_Witness ==
    \E p \in Procs :
        /\ cascade.ended[p] = "returned"
        /\ cascade.ran[p] # <<>>
        /\ cascade.ran[p][1].hook = "post_transition_hook"
        /\ CascadeTransitions[cascade.ran[p][1].transition_name].entity
              = "project"
        /\ cascade.ran[p][1].depth >= 4
        /\ cascade.state["annotation"] = "SUBMITTED"
        /\ cascade.state["task"] = "COMPLETED"

\* This step ends a get_or_initialize_state of p that found no state and
\* went through its initialization branch.
BootstrapEnds(p) == InitializeEnds(p) /\ pc[p] = "goi_done"

\* C40: when get_or_initialize_state found the entity without a state, went
\* through its initialization branch and returns a state, the entity has a
\* StateRecord and the state of its latest record is the state returned.
C40_ReturnedStateIsRecorded ==
    [][\A p \in Procs :
          (BootstrapEnds(p) /\ result'[p] # NoState)
          => /\ records' # <<>>
             /\ LatestState(records') = result'[p]]_vars
====
